---- MODULE Spec2Model ----
(***************************************************************************)
(* Model of the dataset-join pipeline of the ticket-triage evaluation      *)
(* harness (evaluation/dataset.py): load_tasks, load_labels and            *)
(* assemble_examples.  A run reads the tasks file line by line, then the   *)
(* labels file line by line, then joins the two maps.  The file contents   *)
(* are the inputs: every line read is drawn from the set of line shapes    *)
(* the loaders distinguish.                                                *)
(***************************************************************************)
EXTENDS Integers, Sequences, FiniteSets, TLC

\* ------------------------------------------------------------------------
\* Bounds of the model
\* ------------------------------------------------------------------------
\* Total number of physical lines of the two input files together.
MaxLines == 3
\* Number of distinct ticket identifiers that occur in the inputs.
NumIds == 2

\* Identifiers are ordered as Python orders the strings "TKT-1" < "TKT-2" ...
Ids == 1..NumIds

\* ------------------------------------------------------------------------
\* Values
\* ------------------------------------------------------------------------
\* Python None in the ticket_id slot of an issue.
NoId == 0
\* A ticket_id candidate that is present but is not a string (e.g. 7).
NonStrId == -1
\* Python None in the difficulty slot of a label / an example.
NoDifficulty == "<None>"
\* The "difficulty" key is missing from the label line (payload.get -> None).
AbsentDifficulty == "<absent>"
\* The "difficulty" value is present but is not a string (e.g. 3).
NonStrDifficulty == "<non-string>"

SCHEMA_FAILURE == "schema_failure"
JOIN_MISMATCH == "join_mismatch"

\* The closed set of difficulty tags the validator CLI accepts.
ALLOWED_DIFFICULTY == {"easy", "medium", "hard"}

TasksPath == "tasks.jsonl"
LabelsPath == "labels.jsonl"
\* details of the join issues carry no path and no line number
NoPath == ""
NoLine == 0

\* Contents of the validated tasks, as far as the pipeline can tell them
\* apart.
Titles == {"title-a", "title-b"}
\* The (expected_result, difficulty) contents of the schema-valid label
\* lines: both results, and a difficulty that is missing, a tag of the
\* closed set, a string outside it, or no string at all.
LabelContents ==
    {<<"result-a", AbsentDifficulty>>, <<"result-b", "easy">>,
     <<"result-a", "extreme">>, <<"result-b", NonStrDifficulty>>}

\* ------------------------------------------------------------------------
\* Input lines.  kind says how far a line gets through the loader:
\*   blank      raw.strip() is empty
\*   badjson    json.loads raises JSONDecodeError
\*   nonobject  the JSON root is not an object
\*   notask     object without "task" (ticket_id: the top-level ticket_id)
\*   badtask    TicketTask.model_validate raises (ticket_id: the candidate)
\*   task       a schema-valid task
\*   noid       label object whose ticket_id is missing, empty or no string
\*   noexpected label object without "expected_result"
\*   badresult  TicketResult.model_validate raises
\*   label      a schema-valid label
\* ------------------------------------------------------------------------
TaskLine(kind, id, title) == [kind |-> kind, ticket_id |-> id, title |-> title]

TaskLines ==
    {TaskLine(k, NoId, "") : k \in {"blank", "badjson", "nonobject"}}
    \cup {TaskLine("notask", i, "") : i \in Ids \cup {NoId}}
    \cup {TaskLine("badtask", i, "") : i \in Ids \cup {NoId, NonStrId}}
    \cup {TaskLine("task", i, t) : i \in Ids, t \in Titles}

LabelLine(kind, id, gold, difficulty) ==
    [kind |-> kind, ticket_id |-> id, gold |-> gold, difficulty |-> difficulty]

LabelLines ==
    {LabelLine(k, NoId, "", AbsentDifficulty) :
        k \in {"blank", "badjson", "nonobject", "noid"}}
    \cup {LabelLine(k, i, "", AbsentDifficulty) :
        k \in {"noexpected", "badresult"}, i \in Ids}
    \cup {LabelLine("label", i, c[1], c[2]) : i \in Ids, c \in LabelContents}

\* ------------------------------------------------------------------------
\* Helpers
\* ------------------------------------------------------------------------
\* EvaluationIssue(issue_type, details, ticket_id)
EvaluationIssue(issue_type, ticket_id, path, lineno, msg) ==
    [issue_type |-> issue_type, ticket_id |-> ticket_id,
     details |-> [path |-> path, lineno |-> lineno, msg |-> msg]]

\* _append_issue
AppendIssue(issues, issue_type, path, lineno, msg, ticket_id) ==
    Append(issues, EvaluationIssue(issue_type, ticket_id, path, lineno, msg))

\* d[k] = v of a Python dict
DictSet(d, k, v) == (k :> v) @@ d

\* variant of IsBlank: _iter_lines without its "if line:" filter
IsBlankNever(raw) == FALSE

\* raw.strip() is empty
IsBlank(raw) == raw.kind = "blank"

\* variant of LineNumber: the lines numbered after the blank ones are dropped
LineNumberSkippingBlanks(read) ==
    Cardinality({i \in 1..Len(read) : read[i].kind # "blank"}) + 1

\* enumerate(handle, 1): the number of the line read after the lines in read
LineNumber(read) == Len(read) + 1

\* ------------------------------------------------------------------------
\* Loaders
\* ------------------------------------------------------------------------
EmptyDict == <<>>

\* variant of InDict: the duplicate test never fires
InDictNever(d, k) == FALSE

\* key in d
InDict(d, k) == k \in DOMAIN d

\* _parse_json: the payload is usable (ok) or one schema-violation issue
\* was appended and None returned.  (json.loads also rejects the empty
\* string, which _iter_lines never passes on.)
ParseJson(path, lineno, raw, issues) ==
    IF raw.kind \in {"badjson", "blank"}
    THEN [ok |-> FALSE,
          issues |-> AppendIssue(issues, SCHEMA_FAILURE, path, lineno,
                                 "invalid JSON", NoId)]
    ELSE IF raw.kind = "nonobject"
    THEN [ok |-> FALSE,
          issues |-> AppendIssue(issues, SCHEMA_FAILURE, path, lineno,
                                 "expected object root", NoId)]
    ELSE [ok |-> TRUE, issues |-> issues]

\* payload.get("task") is None
TaskDataMissing(raw) == raw.kind = "notask"

\* variant of TaskValidates: a payload that fails validation is accepted
TaskValidatesLax(raw) == raw.kind \in {"task", "badtask"}

\* schemas.TicketTask.model_validate(task_data) does not raise
TaskValidates(raw) == raw.kind = "task"

\* the validated TicketTask
TicketTask(raw) == [ticket_id |-> raw.ticket_id, title |-> raw.title]

\* body of the loop of load_tasks for one non-blank line
LoadTaskLine(path, lineno, raw, tasks, issues) ==
    LET p == ParseJson(path, lineno, raw, issues) IN
    IF ~p.ok
    THEN [tasks |-> tasks, issues |-> p.issues]
    ELSE IF TaskDataMissing(raw)
    THEN [tasks |-> tasks,
          issues |-> AppendIssue(p.issues, SCHEMA_FAILURE, path, lineno,
                                 "missing 'task' field", raw.ticket_id)]
    ELSE IF ~TaskValidates(raw)
    THEN [tasks |-> tasks,
          issues |-> AppendIssue(p.issues, SCHEMA_FAILURE, path, lineno,
                                 "task schema violation", raw.ticket_id)]
    ELSE IF InDict(tasks, TicketTask(raw).ticket_id)
    THEN [tasks |-> tasks,
          issues |-> AppendIssue(p.issues, JOIN_MISMATCH, path, lineno,
                                 "duplicate ticket_id", TicketTask(raw).ticket_id)]
    ELSE [tasks |-> DictSet(tasks, TicketTask(raw).ticket_id, TicketTask(raw)),
          issues |-> p.issues]

\* one iteration of load_tasks over _iter_lines: blank lines are not yielded
LoadTasksStep(path, lineno, raw, tasks, issues) ==
    IF IsBlank(raw)
    THEN [tasks |-> tasks, issues |-> issues]
    ELSE LoadTaskLine(path, lineno, raw, tasks, issues)

\* not isinstance(ticket_id, str) or not ticket_id
LabelIdInvalid(raw) == raw.kind = "noid"

\* payload.get("expected_result") is None
ExpectedMissing(raw) == raw.kind = "noexpected"

\* schemas.TicketResult.model_validate(expected) does not raise
ResultValidates(raw) == raw.kind = "label"

\* isinstance(difficulty, str)
IsStr(difficulty) == difficulty \notin {AbsentDifficulty, NonStrDifficulty}

\* variant of LabelDifficulty: payload.get("difficulty") stored as it is
LabelDifficultyUnchecked(difficulty) ==
    IF difficulty = AbsentDifficulty THEN NoDifficulty ELSE difficulty

\* difficulty if isinstance(difficulty, str) else None
LabelDifficulty(difficulty) ==
    IF IsStr(difficulty) THEN difficulty ELSE NoDifficulty

\* the tuple (result, difficulty) stored for a label
LabelEntry(raw) ==
    [result |-> raw.gold, difficulty |-> LabelDifficulty(raw.difficulty)]

\* body of the loop of load_labels for one non-blank line
LoadLabelLine(path, lineno, raw, labels, issues) ==
    LET p == ParseJson(path, lineno, raw, issues) IN
    IF ~p.ok
    THEN [labels |-> labels, issues |-> p.issues]
    ELSE IF LabelIdInvalid(raw)
    THEN [labels |-> labels,
          issues |-> AppendIssue(p.issues, SCHEMA_FAILURE, path, lineno,
                                 "missing or invalid 'ticket_id'", NoId)]
    ELSE IF ExpectedMissing(raw)
    THEN [labels |-> labels,
          issues |-> AppendIssue(p.issues, SCHEMA_FAILURE, path, lineno,
                                 "missing 'expected_result' field", raw.ticket_id)]
    ELSE IF ~ResultValidates(raw)
    THEN [labels |-> labels,
          issues |-> AppendIssue(p.issues, SCHEMA_FAILURE, path, lineno,
                                 "result schema violation", raw.ticket_id)]
    ELSE IF InDict(labels, raw.ticket_id)
    THEN [labels |-> labels,
          issues |-> AppendIssue(p.issues, JOIN_MISMATCH, path, lineno,
                                 "duplicate ticket_id", raw.ticket_id)]
    ELSE [labels |-> DictSet(labels, raw.ticket_id, LabelEntry(raw)),
          issues |-> p.issues]

\* one iteration of load_labels over _iter_lines
LoadLabelsStep(path, lineno, raw, labels, issues) ==
    IF IsBlank(raw)
    THEN [labels |-> labels, issues |-> issues]
    ELSE LoadLabelLine(path, lineno, raw, labels, issues)

\* ------------------------------------------------------------------------
\* Join (assemble_examples)
\* ------------------------------------------------------------------------
RECURSIVE SortedSeqDescending(_)
\* variant of SortedSeq: the other order
SortedSeqDescending(S) ==
    IF S = {} THEN <<>>
    ELSE LET m == CHOOSE x \in S : \A y \in S : x >= y
         IN <<m>> \o SortedSeqDescending(S \ {m})

RECURSIVE SortedSeq(_)
\* sorted(S) for a set of identifiers
SortedSeq(S) ==
    IF S = {} THEN <<>>
    ELSE LET m == CHOOSE x \in S : \A y \in S : x <= y
         IN <<m>> \o SortedSeq(S \ {m})

\* variant of MissingIds: the label identifiers are not subtracted
MissingIdsNoDifference(task_ids, label_ids) == task_ids

\* task_ids - label_ids
MissingIds(task_ids, label_ids) == task_ids \ label_ids

\* variant of OrphanIds: the operands of the difference swapped
OrphanIdsSwapped(task_ids, label_ids) == task_ids \ label_ids

\* label_ids - task_ids
OrphanIds(task_ids, label_ids) == label_ids \ task_ids

\* task_ids & label_ids
JoinIds(task_ids, label_ids) == task_ids \cap label_ids

MissingMsg == "missing expected result for ticket_id"
OrphanMsg == "orphan expected result without matching task"

\* the issues appended by one of the two remainder loops
RemainderIssues(ids, msg) ==
    [i \in 1..Len(ids) |->
        EvaluationIssue(JOIN_MISMATCH, ids[i], NoPath, NoLine, msg)]

\* variant of EvalExample: the difficulty is not passed on
EvalExampleNoDifficulty(tsk, lbl, ticket_id) ==
    [task |-> tsk[ticket_id], gold |-> lbl[ticket_id].result,
     difficulty |-> NoDifficulty]

\* EvalExample(task=tasks[id], gold=result, difficulty=difficulty)
EvalExample(tsk, lbl, ticket_id) ==
    [task |-> tsk[ticket_id], gold |-> lbl[ticket_id].result,
     difficulty |-> lbl[ticket_id].difficulty]

\* the list built by the loop over sorted(task_ids & label_ids)
BuildExamples(tsk, lbl, ids) ==
    [i \in 1..Len(ids) |-> EvalExample(tsk, lbl, ids[i])]

\* issues.extend(task_issues); issues.extend(label_issues); remainder loops
AssembleIssues(tsk, t_issues, lbl, l_issues) ==
    t_issues \o l_issues
    \o RemainderIssues(SortedSeq(MissingIds(DOMAIN tsk, DOMAIN lbl)), MissingMsg)
    \o RemainderIssues(SortedSeq(OrphanIds(DOMAIN tsk, DOMAIN lbl)), OrphanMsg)

\* ------------------------------------------------------------------------
\* State
\* ------------------------------------------------------------------------
VARIABLES
    pc,            \* position of the run of assemble_examples
    tasks_lines,   \* the physical lines of the tasks file read so far
    labels_lines,  \* the physical lines of the labels file read so far
    tasks,         \* load_tasks: ticket_id -> TicketTask
    task_issues,   \* load_tasks: issues
    labels,        \* load_labels: ticket_id -> (result, difficulty)
    label_issues,  \* load_labels: issues
    issues,        \* DatasetLoadResult.issues
    examples,      \* DatasetLoadResult.examples
    raised,        \* the exception that left assemble_examples, if any
    evaluator,     \* the frame of a call of evaluate_examples
    aggregator,    \* the frame of a call of summarize_results
    metric,        \* the frame of a call of Metric.compute
    runner,        \* the frame of a call of CallableAgentRunner.run
    cli,           \* the frame of a run of main and the files it writes
    validator      \* the frame of a call of validate_dataset

vars == <<pc, tasks_lines, labels_lines, tasks, task_issues, labels,
          label_issues, issues, examples, raised,
          evaluator, aggregator, metric, runner, cli, validator>>

\* the variables of assemble_examples, and those of the other components
datasetVars == <<pc, tasks_lines, labels_lines, tasks, task_issues, labels,
                 label_issues, issues, examples, raised>>

NoException == "none"

\* a component that has not been called
NotCalled == [pc |-> "not_called"]

\* assemble_examples has not been called
DatasetIdle ==
    /\ pc = "not_called"
    /\ tasks_lines = <<>>
    /\ labels_lines = <<>>
    /\ tasks = EmptyDict
    /\ task_issues = <<>>
    /\ labels = EmptyDict
    /\ label_issues = <<>>
    /\ issues = <<>>
    /\ examples = <<>>
    /\ raised = NoException

\* no call of the evaluator, the aggregator, a metric, the runner, main or
\* the validator is in progress
EvaluationIdle ==
    /\ evaluator = NotCalled
    /\ aggregator = NotCalled
    /\ metric = NotCalled
    /\ runner = NotCalled
    /\ cli = NotCalled
    /\ validator = NotCalled

Init ==
    /\ pc = "load_tasks"
    /\ tasks_lines = <<>>
    /\ labels_lines = <<>>
    /\ tasks = EmptyDict
    /\ task_issues = <<>>
    /\ labels = EmptyDict
    /\ label_issues = <<>>
    /\ issues = <<>>
    /\ examples = <<>>
    /\ raised = NoException
    /\ EvaluationIdle

LinesRead == Len(tasks_lines) + Len(labels_lines)

\* load_tasks reads the next line of the tasks file
ReadTaskLine ==
    /\ pc = "load_tasks"
    /\ LinesRead < MaxLines
    /\ \E raw \in TaskLines :
        LET r == LoadTasksStep(TasksPath, LineNumber(tasks_lines), raw,
                               tasks, task_issues)
        IN /\ tasks_lines' = Append(tasks_lines, raw)
           /\ tasks' = r.tasks
           /\ task_issues' = r.issues
    /\ UNCHANGED <<pc, labels_lines, labels, label_issues, issues, examples,
                   raised>>
    /\ UNCHANGED <<evaluator, aggregator, metric, runner, cli,
                   validator>>

\* the tasks file ends: load_tasks returns, load_labels starts
TasksEOF ==
    /\ pc = "load_tasks"
    /\ pc' = "load_labels"
    /\ UNCHANGED <<tasks_lines, labels_lines, tasks, task_issues, labels,
                   label_issues, issues, examples, raised>>
    /\ UNCHANGED <<evaluator, aggregator, metric, runner, cli,
                   validator>>

\* path.open raises for the tasks file (it does not exist, is a directory,
\* is not readable): _iter_lines has no handler and neither has load_tasks
\* or assemble_examples, so the OSError leaves assemble_examples
TasksOpenFails ==
    /\ pc = "load_tasks"
    /\ tasks_lines = <<>>
    /\ raised' = "OSError"
    /\ pc' = "raised"
    /\ UNCHANGED <<tasks_lines, labels_lines, tasks, task_issues, labels,
                   label_issues, issues, examples>>
    /\ UNCHANGED <<evaluator, aggregator, metric, runner, cli,
                   validator>>

\* load_labels reads the next line of the labels file
ReadLabelLine ==
    /\ pc = "load_labels"
    /\ LinesRead < MaxLines
    /\ \E raw \in LabelLines :
        LET r == LoadLabelsStep(LabelsPath, LineNumber(labels_lines), raw,
                                labels, label_issues)
        IN /\ labels_lines' = Append(labels_lines, raw)
           /\ labels' = r.labels
           /\ label_issues' = r.issues
    /\ UNCHANGED <<pc, tasks_lines, tasks, task_issues, issues, examples,
                   raised>>
    /\ UNCHANGED <<evaluator, aggregator, metric, runner, cli,
                   validator>>

\* path.open raises for the labels file: the OSError leaves
\* assemble_examples, the loaded tasks and their issues are lost
LabelsOpenFails ==
    /\ pc = "load_labels"
    /\ labels_lines = <<>>
    /\ raised' = "OSError"
    /\ pc' = "raised"
    /\ UNCHANGED <<tasks_lines, labels_lines, tasks, task_issues, labels,
                   label_issues, issues, examples>>
    /\ UNCHANGED <<evaluator, aggregator, metric, runner, cli,
                   validator>>

\* the labels file ends: load_labels returns and assemble_examples joins
\* the two maps (lines 111-127)
Assemble ==
    /\ pc = "load_labels"
    /\ issues' = AssembleIssues(tasks, task_issues, labels, label_issues)
    /\ examples' = BuildExamples(tasks, labels,
                                 SortedSeq(JoinIds(DOMAIN tasks, DOMAIN labels)))
    /\ pc' = "done"
    /\ UNCHANGED <<tasks_lines, labels_lines, tasks, task_issues, labels,
                   label_issues, raised>>
    /\ UNCHANGED <<evaluator, aggregator, metric, runner, cli,
                   validator>>

Next ==
    \/ ReadTaskLine
    \/ TasksEOF
    \/ TasksOpenFails
    \/ ReadLabelLine
    \/ LabelsOpenFails
    \/ Assemble

Spec == Init /\ [][Next]_vars

\* ------------------------------------------------------------------------
\* The loaders as functions of a whole file, and the join on its own
\* ------------------------------------------------------------------------
RECURSIVE LoadTasksFrom(_, _, _, _)
LoadTasksFrom(path, read, rest, acc) ==
    IF rest = <<>> THEN acc
    ELSE LoadTasksFrom(path, Append(read, Head(rest)), Tail(rest),
                       LoadTasksStep(path, LineNumber(read), Head(rest),
                                     acc.tasks, acc.issues))

\* load_tasks(path) for a file with the given lines
load_tasks(path, lines) ==
    LoadTasksFrom(path, <<>>, lines, [tasks |-> EmptyDict, issues |-> <<>>])

RECURSIVE LoadLabelsFrom(_, _, _, _)
LoadLabelsFrom(path, read, rest, acc) ==
    IF rest = <<>> THEN acc
    ELSE LoadLabelsFrom(path, Append(read, Head(rest)), Tail(rest),
                        LoadLabelsStep(path, LineNumber(read), Head(rest),
                                       acc.labels, acc.issues))

\* load_labels(path) for a file with the given lines
load_labels(path, lines) ==
    LoadLabelsFrom(path, <<>>, lines, [labels |-> EmptyDict, issues |-> <<>>])

\* Total number of lines of the two files in the runs that start at the
\* join.
MaxJoinLines == 4

\* The lines of those files: unparseable lines and schema-valid records.
JoinTaskLines ==
    {TaskLine("badjson", NoId, "")}
    \cup {TaskLine("task", i, t) : i \in Ids, t \in Titles}

JoinLabelLines ==
    {LabelLine("badjson", NoId, "", AbsentDifficulty)}
    \cup {LabelLine("label", i, c[1], c[2]) :
            i \in Ids, c \in {<<"result-a", AbsentDifficulty>>, <<"result-b", "easy">>}}

\* Both loaders have returned: the state of assemble_examples at line 111.
InitJoin ==
    /\ pc = "load_labels"
    /\ \E n, m \in 0..MaxJoinLines :
         /\ n + m <= MaxJoinLines
         /\ tasks_lines \in [1..n -> JoinTaskLines]
         /\ labels_lines \in [1..m -> JoinLabelLines]
    /\ tasks = load_tasks(TasksPath, tasks_lines).tasks
    /\ task_issues = load_tasks(TasksPath, tasks_lines).issues
    /\ labels = load_labels(LabelsPath, labels_lines).labels
    /\ label_issues = load_labels(LabelsPath, labels_lines).issues
    /\ issues = <<>>
    /\ examples = <<>>
    /\ raised = NoException
    /\ EvaluationIdle

NextJoin == Assemble

SpecJoin == InitJoin /\ [][NextJoin]_vars

\* ------------------------------------------------------------------------
\* Vocabulary of the properties
\* ------------------------------------------------------------------------
\* positions of the lines of a file that are not blank
NonBlank(lines) == {i \in 1..Len(lines) : lines[i].kind # "blank"}

\* positions of the schema-valid lines of a file that carry identifier id
ValidLines(lines, id) ==
    {i \in 1..Len(lines) : lines[i].kind \in {"task", "label"}
                           /\ lines[i].ticket_id = id}

\* positions of all lines of a file whose record carries identifier id in
\* the place the loader reads it from (task.ticket_id of a task line, the
\* top-level ticket_id of a label line), whether the record is valid or not
CarryingLines(lines, id) ==
    {i \in 1..Len(lines) :
        /\ lines[i].kind \in {"badtask", "task", "noexpected", "badresult", "label"}
        /\ lines[i].ticket_id = id}

MinOf(S) == CHOOSE x \in S : \A y \in S : x <= y

\* positions in a list of issues of the issues reported for line lineno
IssuesAt(iss, lineno) ==
    {k \in 1..Len(iss) : iss[k].details.lineno = lineno}

\* number of positions of a list that hold the value v
CountOf(list, v) == Cardinality({k \in 1..Len(list) : list[k] = v})

\* positions of the examples built for identifier id
ExamplesFor(id) == {k \in 1..Len(examples) : examples[k].task.ticket_id = id}

\* positions in the final issue list of the join-mismatch issues for id
JoinIssuesFor(id) ==
    {k \in 1..Len(issues) : issues[k].issue_type = JOIN_MISMATCH
                            /\ issues[k].ticket_id = id}

\* the record a schema-valid label line stands for
LabelOfLine(line) ==
    [result |-> line.gold,
     difficulty |-> IF line.difficulty \in {AbsentDifficulty, NonStrDifficulty}
                    THEN NoDifficulty ELSE line.difficulty]

\* ------------------------------------------------------------------------
\* C1
\* ------------------------------------------------------------------------
CountedOnce(lines, dict, iss) ==
    /\ Cardinality(DOMAIN dict) + Len(iss) = Cardinality(NonBlank(lines))
    /\ \A i \in 1..Len(lines) :
         IF lines[i].kind = "blank"
         THEN IssuesAt(iss, i) = {}
         ELSE Cardinality(IssuesAt(iss, i)) <= 1

\* C1: at every point of load_tasks and of load_labels, the number of map
\* entries plus the number of issues equals the number of non-blank lines
\* read; no line has more than one issue and a blank line has none.
C1_EveryLineCountedOnce ==
    /\ CountedOnce(tasks_lines, tasks, task_issues)
    /\ CountedOnce(labels_lines, labels, label_issues)

\* a tasks file with a blank line, a rejected line and a loaded record,
\* loaded to its end
C1_Witness ==
    /\ pc = "done"
    /\ \E i, j, k \in 1..Len(tasks_lines) :
         /\ tasks_lines[i].kind = "blank"
         /\ tasks_lines[j].kind \in {"badjson", "nonobject", "notask", "badtask"}
         /\ tasks_lines[k].kind = "task"
    /\ Len(task_issues) = 1
    /\ Cardinality(DOMAIN tasks) = 1

\* ------------------------------------------------------------------------
\* C2
\* ------------------------------------------------------------------------
\* C2: load_tasks and load_labels never raise to the caller, also when the
\* file cannot be opened: no run ends with an exception.
C2_NeverRaises == raised = NoException /\ pc # "raised"

\* ------------------------------------------------------------------------
\* C3
\* ------------------------------------------------------------------------
BadJsonReported(lines, path, dict, iss) ==
    /\ \A i \in 1..Len(lines) :
         lines[i].kind = "badjson" =>
            /\ Cardinality(IssuesAt(iss, i)) = 1
            /\ \A k \in IssuesAt(iss, i) :
                 iss[k] = EvaluationIssue(SCHEMA_FAILURE, NoId, path, i,
                                          "invalid JSON")
    \* no record comes from anything but a schema-valid line
    /\ \A id \in DOMAIN dict : ValidLines(lines, id) # {}
    \* the schema-valid lines are loaded, whatever precedes them
    /\ \A j \in 1..Len(lines) :
         lines[j].kind \in {"task", "label"} => lines[j].ticket_id \in DOMAIN dict

\* C3: a line that is not parseable JSON yields exactly one issue, a schema
\* violation whose details carry the line's 1-based physical line number
\* (blank lines counted); it adds no record, and the schema-valid lines of
\* the file, later ones included, are still loaded.
C3_BadJsonOneIssueWithLineNumber ==
    /\ BadJsonReported(tasks_lines, TasksPath, tasks, task_issues)
    /\ BadJsonReported(labels_lines, LabelsPath, labels, label_issues)

\* blank line, then unparseable line, then a valid task that is loaded
C3_Witness ==
    /\ Len(tasks_lines) = 3
    /\ tasks_lines[1].kind = "blank"
    /\ tasks_lines[2].kind = "badjson"
    /\ tasks_lines[3].kind = "task"
    /\ task_issues[1].details.lineno = 2
    /\ tasks_lines[3].ticket_id \in DOMAIN tasks

\* ------------------------------------------------------------------------
\* C4
\* ------------------------------------------------------------------------
FirstWins(occ, lines, path, dict, iss, rec(_)) ==
    Cardinality(occ) > 1 =>
        /\ \A j \in occ \ {MinOf(occ)} :
             CountOf(iss, EvaluationIssue(JOIN_MISMATCH, lines[j].ticket_id,
                                          path, j, "duplicate ticket_id")) = 1
        /\ lines[MinOf(occ)].ticket_id \in DOMAIN dict
        /\ dict[lines[MinOf(occ)].ticket_id] = rec(lines[MinOf(occ)])

\* C4 as stated: for every identifier that occurs on more than one line of
\* a file, every occurrence after the first produces a join-mismatch issue
\* and the record kept is the one of the first occurrence.
C4_Original ==
    \A id \in Ids :
        /\ FirstWins(CarryingLines(tasks_lines, id), tasks_lines, TasksPath,
                     tasks, task_issues, TicketTask)
        /\ FirstWins(CarryingLines(labels_lines, id), labels_lines, LabelsPath,
                     labels, label_issues, LabelOfLine)

\* C4 amended: for every identifier carried by more than one schema-valid
\* line of a file, every schema-valid occurrence after the first
\* schema-valid one produces a join-mismatch issue for it, and the record
\* kept is the one of the first schema-valid occurrence.
C4_FirstValidOccurrenceWins ==
    \A id \in Ids :
        /\ FirstWins(ValidLines(tasks_lines, id), tasks_lines, TasksPath,
                     tasks, task_issues, TicketTask)
        /\ FirstWins(ValidLines(labels_lines, id), labels_lines, LabelsPath,
                     labels, label_issues, LabelOfLine)

\* three schema-valid task lines with one identifier, the later ones with
\* another title than the first
C4_Witness ==
    /\ pc = "done"
    /\ \E id \in Ids :
         /\ ValidLines(tasks_lines, id) = {1, 2, 3}
         /\ tasks_lines[2].title # tasks_lines[1].title
         /\ tasks_lines[3].title # tasks_lines[1].title
         /\ Len(task_issues) = 2

\* ------------------------------------------------------------------------
\* C5
\* ------------------------------------------------------------------------
\* C5 as stated: no Example is produced for an identifier that is the
\* associated identifier of a schema-violation issue of the final list.
C5_Original ==
    pc = "done" =>
        \A k \in 1..Len(examples) :
            ~ \E m \in 1..Len(issues) :
                /\ issues[m].issue_type = SCHEMA_FAILURE
                /\ issues[m].ticket_id = examples[k].task.ticket_id

\* C5 amended: no Example is produced for an identifier that has no
\* schema-valid line in the tasks file or none in the labels file; lines
\* that failed validation do not block an identifier that also has a
\* schema-valid line on that side.
C5_NoExampleWithoutValidLines ==
    pc = "done" =>
        \A k \in 1..Len(examples) :
            /\ ValidLines(tasks_lines, examples[k].task.ticket_id) # {}
            /\ ValidLines(labels_lines, examples[k].task.ticket_id) # {}

\* an identifier whose only task line failed validation and which has a
\* schema-valid label: the join is done and there is no Example for it
C5_Witness ==
    /\ pc = "done"
    /\ \E id \in Ids :
         /\ \E i \in 1..Len(tasks_lines) :
              tasks_lines[i].kind = "badtask" /\ tasks_lines[i].ticket_id = id
         /\ ValidLines(tasks_lines, id) = {}
         /\ ValidLines(labels_lines, id) # {}
         /\ ExamplesFor(id) = {}
         /\ \E m \in 1..Len(issues) :
              issues[m].issue_type = SCHEMA_FAILURE /\ issues[m].ticket_id = id

\* ------------------------------------------------------------------------
\* C6
\* ------------------------------------------------------------------------
\* C6: the examples are exactly one Example per identifier of T \cap L (the
\* keys of the loaded task map and label map): as many examples as common
\* identifiers, no identifier twice, and each Example holds the task and the
\* label (result and difficulty) stored under its identifier.
C6_OneExamplePerJoinedId ==
    pc = "done" =>
        /\ Len(examples) = Cardinality(DOMAIN tasks \cap DOMAIN labels)
        /\ \A a, b \in 1..Len(examples) :
             a # b => examples[a].task.ticket_id # examples[b].task.ticket_id
        /\ \A k \in 1..Len(examples) :
             LET id == examples[k].task.ticket_id IN
             /\ id \in DOMAIN tasks \cap DOMAIN labels
             /\ examples[k].task = tasks[id]
             /\ examples[k].gold = labels[id].result
             /\ examples[k].difficulty = labels[id].difficulty

\* two identifiers joined, with different tasks, results and difficulties
C6_Witness ==
    /\ pc = "done"
    /\ Len(examples) = 2
    /\ examples[1].task.title # examples[2].task.title
    /\ examples[1].gold # examples[2].gold
    /\ examples[1].difficulty # examples[2].difficulty
    /\ examples[1].difficulty # NoDifficulty

\* ------------------------------------------------------------------------
\* C7
\* ------------------------------------------------------------------------
HasValidPair(id) ==
    ValidLines(tasks_lines, id) # {} /\ ValidLines(labels_lines, id) # {}

\* C7 as stated: an identifier with a schema-valid task line and a
\* schema-valid label line gets exactly one Example and no join-mismatch
\* issue of the final list refers to it, whatever else the files contain.
C7_Original ==
    pc = "done" =>
        \A id \in Ids :
            HasValidPair(id) =>
                /\ Cardinality(ExamplesFor(id)) = 1
                /\ JoinIssuesFor(id) = {}

\* C7 amended: such an identifier gets exactly one Example and no
\* missing-expected-result or orphan issue; the join-mismatch issues that
\* refer to it are the duplicate-identifier issues, one for each
\* schema-valid line of a file after the first one that carries it.
C7_ValidPairOneExampleNoRemainder ==
    pc = "done" =>
        \A id \in Ids :
            HasValidPair(id) =>
                /\ Cardinality(ExamplesFor(id)) = 1
                /\ \A k \in JoinIssuesFor(id) :
                     issues[k].details.msg = "duplicate ticket_id"
                /\ Cardinality(JoinIssuesFor(id)) =
                     (Cardinality(ValidLines(tasks_lines, id)) - 1)
                     + (Cardinality(ValidLines(labels_lines, id)) - 1)

\* a valid pair whose task occurs on two schema-valid lines: one Example,
\* one duplicate issue, no remainder issue
C7_Witness ==
    /\ pc = "done"
    /\ \E id \in Ids :
         /\ HasValidPair(id)
         /\ Cardinality(ValidLines(tasks_lines, id)) = 2
         /\ Cardinality(ExamplesFor(id)) = 1
         /\ Cardinality(JoinIssuesFor(id)) = 1

\* ------------------------------------------------------------------------
\* C8
\* ------------------------------------------------------------------------
\* positions of the remainder issues (missing / orphan) of the final list
RemainderAt ==
    {k \in 1..Len(issues) : issues[k].details.msg \in {MissingMsg, OrphanMsg}}

\* C8: every identifier of the task map that is not in the label map gets
\* exactly one "missing expected result" join-mismatch issue and no Example;
\* every identifier of the label map that is not in the task map gets
\* exactly one "orphan expected result" join-mismatch issue and no Example;
\* there is no other remainder issue.
C8_RemaindersReportedOnce ==
    pc = "done" =>
        /\ \A id \in DOMAIN tasks \ DOMAIN labels :
             /\ CountOf(issues, EvaluationIssue(JOIN_MISMATCH, id, NoPath,
                                                NoLine, MissingMsg)) = 1
             /\ ExamplesFor(id) = {}
        /\ \A id \in DOMAIN labels \ DOMAIN tasks :
             /\ CountOf(issues, EvaluationIssue(JOIN_MISMATCH, id, NoPath,
                                                NoLine, OrphanMsg)) = 1
             /\ ExamplesFor(id) = {}
        /\ Cardinality(RemainderAt) =
             Cardinality(DOMAIN tasks \ DOMAIN labels)
             + Cardinality(DOMAIN labels \ DOMAIN tasks)

\* the scenario of the spec: one identifier joined, one task without label,
\* one remainder issue and no Example for it
C8_Witness ==
    /\ pc = "done"
    /\ Cardinality(DOMAIN tasks \ DOMAIN labels) = 1
    /\ Cardinality(DOMAIN tasks \cap DOMAIN labels) = 1
    /\ Len(examples) = 1
    /\ Cardinality(RemainderAt) = 1

\* ------------------------------------------------------------------------
\* C9
\* ------------------------------------------------------------------------
\* the issues of a loader come in the order of the lines of its file
InFileOrder(iss) ==
    \A a, b \in 1..Len(iss) : a < b => iss[a].details.lineno < iss[b].details.lineno

\* the final issue list starts with the task loader's issues, then the label
\* loader's, and all that follows are remainder issues
LoaderIssuesFirst ==
    /\ Len(issues) >= Len(task_issues) + Len(label_issues)
    /\ SubSeq(issues, 1, Len(task_issues)) = task_issues
    /\ SubSeq(issues, Len(task_issues) + 1,
              Len(task_issues) + Len(label_issues)) = label_issues
    /\ RemainderAt = (Len(task_issues) + Len(label_issues) + 1)..Len(issues)
    /\ InFileOrder(task_issues)
    /\ InFileOrder(label_issues)

ExamplesSorted ==
    \A a, b \in 1..Len(examples) :
        a < b => examples[a].task.ticket_id < examples[b].task.ticket_id

\* C9 as stated: loader issues first (tasks, then labels, each in file
\* order), then the remainder issues in sorted identifier order; the
\* examples in sorted identifier order.
C9_Original ==
    pc = "done" =>
        /\ LoaderIssuesFirst
        /\ \A a, b \in RemainderAt :
             a < b => issues[a].ticket_id <= issues[b].ticket_id
        /\ ExamplesSorted

\* C9 amended: loader issues first (tasks, then labels, each in file
\* order), then all missing-expected-result issues in sorted identifier
\* order, then all orphan issues in sorted identifier order (the two groups
\* are not merged into one sorted list); the examples in sorted identifier
\* order.
C9_IssueAndExampleOrder ==
    pc = "done" =>
        /\ LoaderIssuesFirst
        /\ \A a, b \in RemainderAt :
             a < b =>
                /\ issues[a].details.msg = OrphanMsg
                     => issues[b].details.msg = OrphanMsg
                /\ issues[a].details.msg = issues[b].details.msg
                     => issues[a].ticket_id < issues[b].ticket_id
        /\ ExamplesSorted

\* a run with issues of both loaders and two remainder issues of one kind
C9_Witness ==
    /\ pc = "done"
    /\ task_issues # <<>>
    /\ label_issues # <<>>
    /\ Cardinality(RemainderAt) = 2
    /\ \A k \in RemainderAt : issues[k].details.msg = OrphanMsg

\* ------------------------------------------------------------------------
\* C10
\* ------------------------------------------------------------------------
\* C10 as stated: the difficulty of every Example is absent or one of easy,
\* medium, hard.
C10_Original ==
    pc = "done" =>
        \A k \in 1..Len(examples) :
            examples[k].difficulty \in ALLOWED_DIFFICULTY \cup {NoDifficulty}

\* C10 amended: the difficulty of every Example is the difficulty string of
\* the label line its label was loaded from, whatever string that is (it is
\* not checked against easy, medium, hard), and it is absent when that line
\* has no difficulty or one that is not a string.
C10_DifficultyCarriedThrough ==
    pc = "done" =>
        \A k \in 1..Len(examples) :
            LET line == labels_lines[MinOf(ValidLines(labels_lines,
                                           examples[k].task.ticket_id))]
            IN examples[k].difficulty =
                 IF line.difficulty \in {AbsentDifficulty, NonStrDifficulty}
                 THEN NoDifficulty ELSE line.difficulty

\* an Example whose label line had a difficulty that is not a string
C10_Witness ==
    /\ pc = "done"
    /\ \E k \in 1..Len(examples) :
         /\ examples[k].difficulty = NoDifficulty
         /\ labels_lines[MinOf(ValidLines(labels_lines,
                examples[k].task.ticket_id))].difficulty = NonStrDifficulty

\* ------------------------------------------------------------------------
\* Values of the evaluation
\* ------------------------------------------------------------------------
\* An optional value: Python None is the empty tuple, a set value v is the
\* one-element tuple <<v>>.
None == <<>>
Some(v) == <<v>>
IsNone(o) == Len(o) = 0

\* A Python scalar with its runtime type.  Floats are integers here: 0 and
\* 1 for the value of a metric, hundredths for money and confidence,
\* milliseconds for time.  A string stands for any non-numeric text.
Bool(b) == [type |-> "bool", val |-> IF b THEN 1 ELSE 0]
Float(x) == [type |-> "float", val |-> x]
Str == [type |-> "str", val |-> 0]
NoneValue == [type |-> "NoneType", val |-> 0]

TicketCategory == {"bug", "incident", "request", "question"}
TicketSeverity == {"low", "medium", "high", "critical"}

\* A text is the sequence of its characters.
Whitespace == {" ", "\t"}
Chars == Whitespace \cup {"a", "A", "b"}

\* TicketResult(category, severity, next_step, confidence): the fields of
\* an object, which Python lets the holder assign after construction
TicketResult(category, severity, next_step, confidence) ==
    [category |-> category, severity |-> severity, next_step |-> next_step,
     confidence |-> confidence]

\* Two results of the schema.  They agree on the category and, up to case
\* and surrounding whitespace, on the next step; the severities differ.
ResultA == TicketResult("bug", "high", <<"a", "b">>, 90)
ResultB == TicketResult("bug", "low", <<" ", "A", "b">>, 50)

\* the result that an expected_result payload of a label line holds
ResultValue(gold) == IF gold = "result-a" THEN ResultA ELSE ResultB

\* AgentRunMetadata(): every field defaults to None
AgentRunMetadata ==
    [latency_ms |-> None, tokens_in |-> None, tokens_out |-> None,
     usd_cost |-> None, tool_calls |-> None, retries |-> None,
     cache_hit |-> None, failure_reason |-> None]

AgentResponse(result, metadata) == [result |-> result, metadata |-> metadata]

\* ------------------------------------------------------------------------
\* evaluation/metrics.py
\* ------------------------------------------------------------------------
MetricResult(name, value, details) ==
    [name |-> name, value |-> value, details |-> details]

\* SchemaValidityMetric.compute: the value is the constant True
SchemaValidityMetric(example, response) ==
    MetricResult("schema_valid", Bool(TRUE), None)

\* variant of CategoricalAccuracyMetric: the category alone decides
CategoricalAccuracyCategoryOnly(example, response) ==
    LET gold == example.gold
        pred == response.result
    IN MetricResult("categorical_accuracy",
                    Float(IF gold.category = pred.category THEN 1 ELSE 0),
                    Some([category_match |-> gold.category = pred.category,
                          severity_match |-> gold.severity = pred.severity]))

\* CategoricalAccuracyMetric.compute
CategoricalAccuracyMetric(example, response) ==
    LET gold == example.gold
        pred == response.result
        correct == (gold.category = pred.category)
                   /\ (gold.severity = pred.severity)
    IN MetricResult("categorical_accuracy",
                    Float(IF correct THEN 1 ELSE 0),
                    Some([category_match |-> gold.category = pred.category,
                          severity_match |-> gold.severity = pred.severity]))

\* str.strip(): the text without its leading and trailing whitespace
RECURSIVE LStrip(_)
LStrip(text) ==
    IF text # <<>> /\ Head(text) \in Whitespace THEN LStrip(Tail(text))
    ELSE text

RECURSIVE RStrip(_)
RStrip(text) ==
    IF text # <<>> /\ text[Len(text)] \in Whitespace
    THEN RStrip(SubSeq(text, 1, Len(text) - 1))
    ELSE text

\* variant of Strip: only the leading whitespace goes (str.lstrip)
StripLeadingOnly(text) == LStrip(text)

Strip(text) == RStrip(LStrip(text))

\* str.lower() on one character and on a text
LowerChar(c) == IF c = "A" THEN "a" ELSE c

Lower(text) == [k \in 1..Len(text) |-> LowerChar(text[k])]

\* NextStepMatcher.compute
NextStepMatcher(example, response) ==
    LET gold_step == Lower(Strip(example.gold.next_step))
        pred_step == Lower(Strip(response.result.next_step))
    IN MetricResult("next_step_match", Bool(gold_step = pred_step),
                    Some([normalized_gold |-> gold_step,
                          normalized_pred |-> pred_step]))

\* CostAggregator.compute
CostAggregator(example, response) ==
    LET metadata == response.metadata
        cost == IF ~IsNone(metadata.usd_cost) THEN metadata.usd_cost[1] ELSE 0
    IN MetricResult("usd_cost", Float(cost), None)

\* A metric of the Metric protocol that supplies an empty details mapping.
EmptyDetailsMetric(example, response) ==
    MetricResult("empty_details", Float(1), Some(<<>>))

\* metric.compute(example, response) for the metric of that name
Compute(name, example, response) ==
    CASE name = "schema_valid" -> SchemaValidityMetric(example, response)
      [] name = "categorical_accuracy" ->
            CategoricalAccuracyMetric(example, response)
      [] name = "next_step_match" -> NextStepMatcher(example, response)
      [] name = "usd_cost" -> CostAggregator(example, response)
      [] name = "empty_details" -> EmptyDetailsMetric(example, response)

\* _metrics(): the four metrics of the harness, in this order
DefaultMetrics ==
    <<"schema_valid", "categorical_accuracy", "next_step_match", "usd_cost">>

\* ------------------------------------------------------------------------
\* evaluation/evaluator.py: evaluate_examples
\* ------------------------------------------------------------------------
\* Largest number of examples handed to evaluate_examples.
MaxExamples == 2

\* the examples: one per identifier, with ResultA as the gold result
EvalExamples ==
    {[task |-> [ticket_id |-> i, title |-> "title-a"], gold |-> ResultA,
      difficulty |-> NoDifficulty] : i \in Ids}

\* the values of the limit argument: None, a negative number, zero, and
\* numbers below, at and above the number of examples
Limits == {None} \cup {Some(l) : l \in -1..(MaxExamples + 1)}

\* the lists of metrics handed to evaluate_examples
MetricLists ==
    {<<>>, DefaultMetrics, <<"empty_details", "usd_cost">>,
     <<"next_step_match", "empty_details">>}

\* what agent_runner.run can return: either result, with or without a cost
RunnerResponses ==
    {AgentResponse(ResultA, [AgentRunMetadata EXCEPT !.latency_ms = Some(5)]),
     AgentResponse(ResultB, [AgentRunMetadata EXCEPT !.latency_ms = Some(5),
                                                     !.usd_cost = Some(25)])}

\* variant of LimitReached: the test is count > limit
LimitReachedOffByOne(limit, count) == ~IsNone(limit) /\ count > limit[1]

\* limit is not None and count >= limit
LimitReached(limit, count) == ~IsNone(limit) /\ count >= limit[1]

\* variant of Truthy: the test is "details is not None"
TruthyNotNone(details) == ~IsNone(details)

\* "if metric_result.details": the details are neither None nor empty
Truthy(details) == ~IsNone(details) /\ DOMAIN details[1] # {}

\* f"{name}_details"
DetailsKey(name) == name \o "_details"

\* the two assignments to metric_outputs for one MetricResult
StoreMetric(metric_outputs, metric_result) ==
    LET valued == DictSet(metric_outputs, metric_result.name,
                          metric_result.value)
    IN IF Truthy(metric_result.details)
       THEN DictSet(valued, DetailsKey(metric_result.name),
                    metric_result.details[1])
       ELSE valued

\* EvalResult(ticket_id, output, metrics, metadata)
EvalResult(example, response, metric_outputs) ==
    [ticket_id |-> example.task.ticket_id, output |-> response.result,
     metrics |-> metric_outputs, metadata |-> response.metadata]

\* variant of NextMetric: every other metric is skipped
NextMetricSkipping(m) == m + 2

\* the inner loop moves on to the next metric of the list
NextMetric(m) == m + 1

\* evaluate_examples(examples, agent_runner, metrics, limit) is called:
\* results = [], count = 0 (lines 21-22)
InitEval ==
    /\ \E n \in 0..MaxExamples :
       \E exs \in [1..n -> EvalExamples] :
       \E ms \in MetricLists :
       \E l \in Limits :
         evaluator = [pc |-> "loop", examples |-> exs, metrics |-> ms,
                      limit |-> l, count |-> 0, response |-> None, m |-> 0,
                      metric_outputs |-> EmptyDict, results |-> <<>>,
                      calls |-> <<>>, exc |-> NoException]
    /\ DatasetIdle
    /\ aggregator = NotCalled
    /\ metric = NotCalled
    /\ runner = NotCalled
    /\ cli = NotCalled
    /\ validator = NotCalled

\* the for loop has another example and the limit does not stop it
\* (lines 24-26)
EvalHasNext ==
    /\ evaluator.pc = "loop"
    /\ evaluator.count < Len(evaluator.examples)
    /\ ~LimitReached(evaluator.limit, evaluator.count)

\* line 27: agent_runner.run(example.task) returns a response
RunAgent ==
    /\ EvalHasNext
    /\ \E resp \in RunnerResponses :
         evaluator' = [evaluator EXCEPT
            !.pc = "metrics",
            !.response = Some(resp),
            !.m = 1,
            !.metric_outputs = EmptyDict,
            !.calls = Append(@, [op |-> "run", example |-> evaluator.count + 1,
                                 metric |-> 0])]
    /\ UNCHANGED <<datasetVars, aggregator, metric, runner, cli,
                   validator>>

\* line 27: agent_runner.run(example.task) raises; evaluate_examples has
\* no handler, the exception leaves it and the results so far are lost
RunAgentRaises ==
    /\ EvalHasNext
    /\ evaluator' = [evaluator EXCEPT
            !.pc = "raised",
            !.exc = "NotImplementedError",
            !.results = <<>>,
            !.calls = Append(@, [op |-> "run", example |-> evaluator.count + 1,
                                 metric |-> 0])]
    /\ UNCHANGED <<datasetVars, aggregator, metric, runner, cli,
                   validator>>

\* lines 29-33: one round of the loop over the metrics
ComputeMetric ==
    /\ evaluator.pc = "metrics"
    /\ evaluator.m <= Len(evaluator.metrics)
    /\ LET example == evaluator.examples[evaluator.count + 1]
           metric_result == Compute(evaluator.metrics[evaluator.m], example,
                                    evaluator.response[1])
       IN evaluator' = [evaluator EXCEPT
            !.metric_outputs = StoreMetric(@, metric_result),
            !.m = NextMetric(@),
            !.calls = Append(@, [op |-> "compute",
                                 example |-> evaluator.count + 1,
                                 metric |-> evaluator.m])]
    /\ UNCHANGED <<datasetVars, aggregator, metric, runner, cli,
                   validator>>

\* lines 34-42: the loop over the metrics is over, the EvalResult is
\* appended and count incremented
AppendResult ==
    /\ evaluator.pc = "metrics"
    /\ evaluator.m > Len(evaluator.metrics)
    /\ LET example == evaluator.examples[evaluator.count + 1]
       IN evaluator' = [evaluator EXCEPT
            !.pc = "loop",
            !.results = Append(@, EvalResult(example, evaluator.response[1],
                                             evaluator.metric_outputs)),
            !.count = @ + 1]
    /\ UNCHANGED <<datasetVars, aggregator, metric, runner, cli,
                   validator>>

\* lines 25-26, 43: the limit is reached while examples remain: break and
\* return
LimitBreak ==
    /\ evaluator.pc = "loop"
    /\ evaluator.count < Len(evaluator.examples)
    /\ LimitReached(evaluator.limit, evaluator.count)
    /\ evaluator' = [evaluator EXCEPT !.pc = "returned"]
    /\ UNCHANGED <<datasetVars, aggregator, metric, runner, cli,
                   validator>>

\* lines 24, 43: the examples are exhausted: return
Exhausted ==
    /\ evaluator.pc = "loop"
    /\ evaluator.count = Len(evaluator.examples)
    /\ evaluator' = [evaluator EXCEPT !.pc = "returned"]
    /\ UNCHANGED <<datasetVars, aggregator, metric, runner, cli,
                   validator>>

NextEval ==
    \/ RunAgent
    \/ RunAgentRaises
    \/ ComputeMetric
    \/ AppendResult
    \/ LimitBreak
    \/ Exhausted

SpecEval == InitEval /\ [][NextEval]_vars

\* ------------------------------------------------------------------------
\* Vocabulary of the properties of evaluate_examples
\* ------------------------------------------------------------------------
Min(a, b) == IF a <= b THEN a ELSE b
Max(a, b) == IF a >= b THEN a ELSE b

\* positions in the log of calls of the invocations of the runner
RunCalls(calls) == {k \in 1..Len(calls) : calls[k].op = "run"}

\* the number of results the limit allows for n examples
ResultsAllowed(n, limit) ==
    IF IsNone(limit) THEN n ELSE Min(n, Max(limit[1], 0))

\* ------------------------------------------------------------------------
\* C11: evaluate_examples over n examples with limit L returns one
\* EvalResult per processed example, in input order, the i-th result
\* carrying the identifier of the i-th example; the number of results is n
\* when L is absent and min(n, max(L, 0)) otherwise; the runner is never
\* invoked for an example at or past the limit, so L = 0 (or less) invokes
\* nothing and returns the empty list.
C11_ResultsWithinLimit ==
    LET n == Len(evaluator.examples)
        allowed == ResultsAllowed(n, evaluator.limit)
    IN /\ \A k \in RunCalls(evaluator.calls) :
            evaluator.calls[k].example <= allowed
       /\ evaluator.pc = "returned" =>
            /\ Len(evaluator.results) = allowed
            /\ Cardinality(RunCalls(evaluator.calls)) = allowed
            /\ \A i \in 1..allowed :
                 evaluator.results[i].ticket_id =
                     evaluator.examples[i].task.ticket_id

\* a limit below the number of examples has cut the evaluation short, and
\* the results are those of the first examples, in their order
C11_Witness ==
    /\ evaluator.pc = "returned"
    /\ evaluator.limit = Some(1)
    /\ Len(evaluator.examples) = 2
    /\ evaluator.examples[1].task.ticket_id # evaluator.examples[2].task.ticket_id
    /\ Len(evaluator.results) = 1
    /\ evaluator.results[1].ticket_id = evaluator.examples[1].task.ticket_id

\* positions in the log of the calls made for example i with metric j
\* (j = 0: the invocation of the runner; j >= 1: compute of the j-th metric)
CallsFor(calls, i, j) ==
    {k \in 1..Len(calls) : calls[k].example = i /\ calls[k].metric = j}

\* ------------------------------------------------------------------------
\* C12: evaluation is strictly sequential.  For each processed example the
\* runner is invoked exactly once and then every metric is computed exactly
\* once on that example and its response, in the order of the metric list,
\* and all of it happens before the runner is invoked for the next example.
C12_SequentialOnePass ==
    LET calls == evaluator.calls
        M == Len(evaluator.metrics)
    IN /\ \A i \in 1..Len(evaluator.results) :
            /\ Cardinality(CallsFor(calls, i, 0)) = 1
            /\ calls[CHOOSE k \in CallsFor(calls, i, 0) : TRUE].op = "run"
            /\ \A j \in 1..M :
                 /\ Cardinality(CallsFor(calls, i, j)) = 1
                 /\ calls[CHOOSE k \in CallsFor(calls, i, j) : TRUE].op
                        = "compute"
       /\ \A k, l \in 1..Len(calls) :
            k < l =>
              \/ calls[k].example < calls[l].example
              \/ /\ calls[k].example = calls[l].example
                 /\ calls[k].metric < calls[l].metric

\* two examples went through the runner and the four metrics of the
\* harness: ten calls, five for each example
C12_Witness ==
    /\ evaluator.pc = "returned"
    /\ evaluator.metrics = DefaultMetrics
    /\ Len(evaluator.results) = 2
    /\ Len(evaluator.calls) = 10
    /\ evaluator.calls[5] = [op |-> "compute", example |-> 1, metric |-> 4]
    /\ evaluator.calls[6] = [op |-> "run", example |-> 2, metric |-> 0]

\* the details a metric supplied are a mapping with at least one entry
NonEmptyDetails(details) ==
    Len(details) = 1 /\ Cardinality(DOMAIN details[1]) > 0

\* ------------------------------------------------------------------------
\* C13: the metrics mapping of every EvalResult holds, for each metric, the
\* entry <name> -> value, and the entry <name>_details (equal to the
\* details of the metric) exactly when the metric supplied non-empty
\* details; absent or empty details add no <name>_details key.
C13_MetricsAndSidecars ==
    \A i \in 1..Len(evaluator.results) :
        LET r == evaluator.results[i]
            resp == AgentResponse(r.output, r.metadata)
            computed == [j \in 1..Len(evaluator.metrics) |->
                            Compute(evaluator.metrics[j],
                                    evaluator.examples[i], resp)]
        IN /\ \A j \in 1..Len(computed) :
                LET name == computed[j].name
                    sidecar == name \o "_details"
                IN /\ name \in DOMAIN r.metrics
                   /\ r.metrics[name] = computed[j].value
                   /\ (sidecar \in DOMAIN r.metrics)
                        <=> NonEmptyDetails(computed[j].details)
                   /\ NonEmptyDetails(computed[j].details) =>
                        r.metrics[sidecar] = computed[j].details[1]
           /\ \A key \in DOMAIN r.metrics :
                \E j \in 1..Len(computed) :
                    key \in {computed[j].name, computed[j].name \o "_details"}

\* a result scored by a metric with details and by one whose details are
\* the empty mapping: one sidecar key, not two
C13_Witness ==
    /\ evaluator.pc = "returned"
    /\ evaluator.metrics = <<"next_step_match", "empty_details">>
    /\ Len(evaluator.results) >= 1
    /\ DOMAIN evaluator.results[1].metrics =
          {"next_step_match", "next_step_match_details", "empty_details"}
    /\ evaluator.results[1].metrics["next_step_match_details"].normalized_pred
          = <<"a", "b">>

\* ------------------------------------------------------------------------
\* evaluation/evaluator.py: summarize_results
\* ------------------------------------------------------------------------
\* Largest number of results handed to summarize_results.
MaxResults == 2

\* a quotient of two numbers, kept as the pair (Python computes a float)
Ratio(num, den) == [num |-> num, den |-> den]

\* the float 0.0 of the all-zero summary
Zero == Ratio(0, 1)

AggregateSummary(total_examples, categorical_accuracy, next_step_match_rate, schema_valid_pct, total_cost_usd) ==
    [total_examples |-> total_examples,
     categorical_accuracy |-> categorical_accuracy,
     next_step_match_rate |-> next_step_match_rate,
     schema_valid_pct |-> schema_valid_pct,
     total_cost_usd |-> total_cost_usd]

\* a metrics mapping with the given entries; None leaves the key out
MetricsMapping(accuracy, next_step, schema_valid, usd_cost) ==
    LET Entry(key, value) == IF IsNone(value) THEN <<>> ELSE (key :> value[1])
    IN Entry("categorical_accuracy", accuracy)
       @@ Entry("next_step_match", next_step)
       @@ Entry("schema_valid", schema_valid)
       @@ Entry("usd_cost", usd_cost)

\* the values the two boolean metrics have in a result: true, false,
\* missing, and values that are not of type bool (the number 1.0, a string)
BooleanPairs ==
    {<<Some(Bool(TRUE)), Some(Bool(TRUE))>>, <<Some(Bool(FALSE)), None>>,
     <<None, Some(Float(1))>>, <<Some(Str), Some(Bool(FALSE))>>}

\* the results handed to summarize_results: the accuracy is missing, 0.0 or
\* 1.0; the cost is missing, a number, a string or None
SummaryResults ==
    {[ticket_id |-> 1, output |-> ResultA, metadata |-> AgentRunMetadata,
      metrics |-> MetricsMapping(a, b[1], b[2], c)] :
        a \in {None, Some(Float(0)), Some(Float(1))},
        b \in BooleanPairs,
        c \in {None, Some(Float(25)), Some(Str), Some(NoneValue)}}

\* metrics.get(key, default)
Get(metrics, key, default) ==
    IF key \in DOMAIN metrics THEN metrics[key] ELSE default

\* float(v) returns for a float and for a bool (True is 1.0)
Numeric(v) == v.type \in {"float", "bool"}

\* float(v) raises TypeError for None and ValueError for a string that is
\* not the text of a number
FloatError(v) == IF v.type = "NoneType" THEN "TypeError" ELSE "ValueError"

\* variant of BoolContribution: the truth value counts, whatever the type
BoolContributionTruthy(v) ==
    IF v.type # "NoneType" /\ (v.val # 0 \/ v.type = "str") THEN 1 ELSE 0

\* "if isinstance(v, bool): sum += 1.0 if v else 0.0"
BoolContribution(v) == IF v.type = "bool" /\ v.val = 1 THEN 1 ELSE 0

\* the loop of lines 67-76 from result i on; sums.exc is set by the first
\* float() that raises
RECURSIVE Accumulate(_, _, _)
Accumulate(results, i, sums) ==
    IF i > Len(results) THEN sums
    ELSE
      LET metrics == results[i].metrics
          accuracy == Get(metrics, "categorical_accuracy", Float(0))
          next_step == Get(metrics, "next_step_match", NoneValue)
          schema_valid == Get(metrics, "schema_valid", NoneValue)
          usd_cost == Get(metrics, "usd_cost", Float(0))
      IN IF ~Numeric(accuracy)
         THEN [sums EXCEPT !.exc = FloatError(accuracy)]
         ELSE IF ~Numeric(usd_cost)
         THEN [sums EXCEPT !.exc = FloatError(usd_cost)]
         ELSE Accumulate(results, i + 1,
                [accuracy_sum |-> sums.accuracy_sum + accuracy.val,
                 next_step_sum |-> sums.next_step_sum
                                    + BoolContribution(next_step),
                 schema_valid_sum |-> sums.schema_valid_sum
                                       + BoolContribution(schema_valid),
                 cost_sum |-> sums.cost_sum + usd_cost.val,
                 exc |-> NoException])

\* summarize_results(results): the summary, or the exception that leaves it
summarize_results(results) ==
    LET total == Len(results)
        sums == Accumulate(results, 1,
                   [accuracy_sum |-> 0, next_step_sum |-> 0,
                    schema_valid_sum |-> 0, cost_sum |-> 0,
                    exc |-> NoException])
    IN IF total = 0
       THEN [exc |-> NoException,
             summary |-> AggregateSummary(0, Zero, Zero, Zero, 0)]
       ELSE IF sums.exc # NoException
       THEN [exc |-> sums.exc, summary |-> None]
       ELSE [exc |-> NoException,
             summary |-> AggregateSummary(total,
                            Ratio(sums.accuracy_sum, total),
                            Ratio(sums.next_step_sum, total),
                            Ratio(sums.schema_valid_sum, total),
                            sums.cost_sum)]

\* summarize_results is called with a list of results
InitSummarize ==
    /\ \E n \in 0..MaxResults :
       \E rs \in [1..n -> SummaryResults] :
         aggregator = [pc |-> "called", results |-> rs, summary |-> None,
                       exc |-> NoException]
    /\ DatasetIdle
    /\ evaluator = NotCalled
    /\ metric = NotCalled
    /\ runner = NotCalled
    /\ cli = NotCalled
    /\ validator = NotCalled

\* the call runs to its return or to the exception that leaves it
Summarize ==
    /\ aggregator.pc = "called"
    /\ LET out == summarize_results(aggregator.results)
       IN aggregator' = [aggregator EXCEPT
            !.pc = IF out.exc = NoException THEN "returned" ELSE "raised",
            !.summary = out.summary,
            !.exc = out.exc]
    /\ UNCHANGED <<datasetVars, evaluator, metric, runner, cli,
                   validator>>

NextSummarize == Summarize

SpecSummarize == InitSummarize /\ [][NextSummarize]_vars

\* ------------------------------------------------------------------------
\* Vocabulary of the properties of summarize_results
\* ------------------------------------------------------------------------
\* the results whose metrics hold the value v under the key
ResultsWith(results, key, v) ==
    {i \in 1..Len(results) :
        key \in DOMAIN results[i].metrics /\ results[i].metrics[key] = v}

\* the results whose usd_cost is present and is not a number
NonNumericCost(results) ==
    ResultsWith(results, "usd_cost", Str)
    \cup ResultsWith(results, "usd_cost", NoneValue)

\* q is the quotient of num by den
IsQuotient(q, num, den) == q.num * den = num * q.den /\ q.den > 0

C15_CostIsLenientSum ==
    LET results == aggregator.results
        n == Len(results)
    IN aggregator.pc # "called" /\ n > 0 =>
         /\ aggregator.pc = "returned"
         /\ aggregator.summary.total_cost_usd =
              25 * Cardinality(ResultsWith(results, "usd_cost", Float(25)))

\* ------------------------------------------------------------------------
\* One call of compute of a metric of the harness
\* ------------------------------------------------------------------------
\* Largest number of characters of a next_step text.
MaxTextLen == 2

Texts == UNION {[1..n -> Chars] : n \in 0..MaxTextLen}

\* the constraints of the TicketResult schema on the fields of a result
\* (confidence in hundredths)
SchemaSatisfied(result) ==
    /\ result.category \in TicketCategory
    /\ result.severity \in TicketSeverity
    /\ Len(result.next_step) >= 1
    /\ 0 <= result.confidence /\ result.confidence <= 100

\* results as they can be at the time of scoring: built through the schema
\* and then possibly assigned to (the model classes do not validate
\* assignments), so a field may hold a value outside the schema
ScoredResults ==
    {TicketResult(c, s, t, x) :
        c \in TicketCategory \cup {"outage"},
        s \in TicketSeverity \cup {"urgent"},
        t \in {<<>>, <<"a">>},
        x \in {-10, 0, 50, 100, 150}}

\* the (metric, gold result, agent result) triples of the calls
MetricCalls ==
    {<<"categorical_accuracy", TicketResult(c1, s1, <<"a">>, 90),
       TicketResult(c2, s2, <<"a">>, 90)>> :
        c1 \in TicketCategory, s1 \in TicketSeverity,
        c2 \in TicketCategory, s2 \in TicketSeverity}
    \cup {<<"next_step_match", TicketResult("bug", "low", t1, 90),
            TicketResult("bug", "low", t2, 90)>> : t1 \in Texts, t2 \in Texts}
    \cup {<<"schema_valid", ResultA, r>> : r \in ScoredResults}

\* metric.compute(example, response) is called
InitMetric ==
    /\ \E c \in MetricCalls :
         metric = [pc |-> "called", name |-> c[1],
                   example |-> [task |-> [ticket_id |-> 1, title |-> "title-a"],
                                gold |-> c[2], difficulty |-> NoDifficulty],
                   response |-> AgentResponse(c[3], AgentRunMetadata),
                   out |-> None]
    /\ DatasetIdle
    /\ evaluator = NotCalled
    /\ aggregator = NotCalled
    /\ runner = NotCalled
    /\ cli = NotCalled
    /\ validator = NotCalled

\* compute returns its MetricResult
MetricCompute ==
    /\ metric.pc = "called"
    /\ metric' = [metric EXCEPT
            !.pc = "returned",
            !.out = Some(Compute(metric.name, metric.example, metric.response))]
    /\ UNCHANGED <<datasetVars, evaluator, aggregator, runner, cli,
                   validator>>

NextMetricCall == MetricCompute

SpecMetric == InitMetric /\ [][NextMetricCall]_vars

\* ------------------------------------------------------------------------
\* Vocabulary of the properties of the metrics
\* ------------------------------------------------------------------------
\* compute of the named metric has returned
Scored(name) == metric.pc = "returned" /\ metric.name = name

\* the letters that differ only in case: (uppercase, lowercase)
CasePairs == {<<"A", "a">>}

\* norm is text without its surrounding whitespace, uppercase letters
\* replaced by their lowercase: text is i whitespace characters, a core
\* that neither starts nor ends with whitespace, and j whitespace characters
IsNormalizedOf(norm, text) ==
    \E i, j \in 0..Len(text) :
        /\ i + j <= Len(text)
        /\ \A k \in 1..i : text[k] \in Whitespace
        /\ \A k \in (Len(text) - j + 1)..Len(text) : text[k] \in Whitespace
        /\ LET core == [k \in 1..(Len(text) - i - j) |-> text[i + k]]
           IN /\ Len(core) > 0 =>
                    core[1] \notin Whitespace /\ core[Len(core)] \notin Whitespace
              /\ Len(norm) = Len(core)
              /\ \A k \in 1..Len(core) :
                    /\ norm[k] \notin {p[1] : p \in CasePairs}
                    /\ norm[k] = core[k] \/ <<core[k], norm[k]>> \in CasePairs

\* ------------------------------------------------------------------------
\* C16: CategoricalAccuracyMetric returns 1.0 exactly when the category and
\* the severity of the agent's result both equal those of the gold result,
\* and 0.0 otherwise; its details report category_match and severity_match
\* each on its own.
C16_BothFieldsMustMatch ==
    Scored("categorical_accuracy") =>
        LET gold == metric.example.gold
            pred == metric.response.result
            out == metric.out[1]
        IN /\ out.value = Float(1) <=>
                (gold.category = pred.category /\ gold.severity = pred.severity)
           /\ out.value \in {Float(0), Float(1)}
           /\ out.details[1].category_match <=> gold.category = pred.category
           /\ out.details[1].severity_match <=> gold.severity = pred.severity

\* the category matches and the severity does not: the value is 0.0 and
\* the details tell the two apart
C16_Witness ==
    /\ Scored("categorical_accuracy")
    /\ metric.example.gold.category = metric.response.result.category
    /\ metric.example.gold.severity # metric.response.result.severity
    /\ metric.out[1].value = Float(0)
    /\ metric.out[1].details[1] =
          [category_match |-> TRUE, severity_match |-> FALSE]

\* ------------------------------------------------------------------------
\* C17: NextStepMatcher returns true exactly when the gold and the
\* predicted next_step are equal after trimming surrounding whitespace and
\* folding case, for every pair of texts; its details report both
\* normalized texts; the value is the same with the two texts exchanged.
C17_EqualUpToCaseAndTrim ==
    Scored("next_step_match") =>
        LET gold == metric.example.gold.next_step
            pred == metric.response.result.next_step
            out == metric.out[1]
            exchanged ==
                NextStepMatcher(
                    [metric.example EXCEPT !.gold = metric.response.result],
                    [metric.response EXCEPT !.result = metric.example.gold])
        IN /\ out.value = Bool(TRUE) <=>
                \E norm \in Texts :
                    IsNormalizedOf(norm, gold) /\ IsNormalizedOf(norm, pred)
           /\ out.value \in {Bool(TRUE), Bool(FALSE)}
           /\ IsNormalizedOf(out.details[1].normalized_gold, gold)
           /\ IsNormalizedOf(out.details[1].normalized_pred, pred)
           /\ exchanged.value = out.value

\* texts that differ in case and in surrounding whitespace match
C17_Witness ==
    /\ Scored("next_step_match")
    /\ metric.example.gold.next_step = <<"a", " ">>
    /\ metric.response.result.next_step = <<"\t", "A">>
    /\ metric.out[1].value = Bool(TRUE)
    /\ metric.out[1].details[1] =
          [normalized_gold |-> <<"a">>, normalized_pred |-> <<"a">>]

\* ------------------------------------------------------------------------
\* C18: SchemaValidityMetric returns true exactly when the agent's result
\* satisfies the result schema at the time of scoring; in particular it
\* returns false for a result whose fields were corrupted after
\* construction (a category outside the set, a confidence out of range).
C18_TrueIffSchemaSatisfied ==
    Scored("schema_valid") =>
        (metric.out[1].value = Bool(TRUE)
            <=> SchemaSatisfied(metric.response.result))

\* ------------------------------------------------------------------------
\* evaluation/agent_runner.py: CallableAgentRunner.run
\* ------------------------------------------------------------------------
\* RunContext(task, result, elapsed_ms)
RunContext(task, result, elapsed_ms) ==
    [task |-> task, result |-> result, elapsed_ms |-> elapsed_ms]

\* the elapsed times the two perf_counter readings can give, milliseconds
ElapsedTimes == {1, 7}

\* No metadata hook was given to the constructor.
NoHook == "none"

\* The hooks given to the constructor: one reports a cost and leaves the
\* latency unset, one records what its RunContext held.
MetadataHooks == {"cost_only", "record_context"}

\* self._metadata_hook(ctx)
ApplyHook(hook, ctx) ==
    IF hook = "cost_only"
    THEN [AgentRunMetadata EXCEPT !.usd_cost = Some(25)]
    ELSE [AgentRunMetadata EXCEPT
            !.latency_ms = Some(ctx.elapsed_ms),
            !.tokens_in = Some(ctx.task.ticket_id),
            !.failure_reason = Some(ctx.result.severity)]

\* what the wrapped callable can return: a bare TicketResult, or an
\* AgentResponse whose metadata has a latency that is unset, 0.0 or 5.0
CallableReturns ==
    {[full |-> FALSE, result |-> r, metadata |-> AgentRunMetadata] :
        r \in {ResultA, ResultB}}
    \cup {[full |-> TRUE, result |-> r,
           metadata |-> [AgentRunMetadata EXCEPT !.latency_ms = l,
                                                 !.usd_cost = c,
                                                 !.failure_reason = f]] :
            r \in {ResultA, ResultB}, l \in {None, Some(0), Some(5)},
            c \in {None, Some(25)}, f \in {None, Some("timeout")}}

\* variant of LatencyUnset: a latency of 0.0 counts as unset
LatencyUnsetOrZero(metadata) ==
    IsNone(metadata.latency_ms) \/ metadata.latency_ms = Some(0)

\* metadata.latency_ms is None
LatencyUnset(metadata) == IsNone(metadata.latency_ms)

\* lines 53-62 of run: the response for what the callable returned
CallableRun(returned, hook, task, elapsed_ms) ==
    IF returned.full
    THEN AgentResponse(returned.result,
            IF LatencyUnset(returned.metadata)
            THEN [returned.metadata EXCEPT !.latency_ms = Some(elapsed_ms)]
            ELSE returned.metadata)
    ELSE AgentResponse(returned.result,
            IF hook # NoHook
            THEN ApplyHook(hook, RunContext(task, returned.result, elapsed_ms))
            ELSE [AgentRunMetadata EXCEPT !.latency_ms = Some(elapsed_ms)])

\* run(task) is called on a CallableAgentRunner
InitRunner ==
    /\ \E i \in Ids :
       \E ret \in CallableReturns :
       \E hook \in MetadataHooks \cup {NoHook} :
         runner = [pc |-> "called",
                   task |-> [ticket_id |-> i, title |-> "title-a"],
                   returned |-> ret, hook |-> hook, elapsed_ms |-> None,
                   out |-> None]
    /\ DatasetIdle
    /\ evaluator = NotCalled
    /\ aggregator = NotCalled
    /\ metric = NotCalled
    /\ cli = NotCalled
    /\ validator = NotCalled

\* lines 49-62: the callable is timed and the response returned
RunnerRun ==
    /\ runner.pc = "called"
    /\ \E elapsed_ms \in ElapsedTimes :
         runner' = [runner EXCEPT
            !.pc = "returned",
            !.elapsed_ms = Some(elapsed_ms),
            !.out = Some(CallableRun(runner.returned, runner.hook,
                                     runner.task, elapsed_ms))]
    /\ UNCHANGED <<datasetVars, evaluator, aggregator, metric, cli,
                   validator>>

NextRunner == RunnerRun

SpecRunner == InitRunner /\ [][NextRunner]_vars

\* ------------------------------------------------------------------------
\* Vocabulary of the properties of the runner
\* ------------------------------------------------------------------------
\* the metadata fields other than the latency
OtherFields == DOMAIN AgentRunMetadata \ {"latency_ms"}

\* two metadata objects agree on every field other than the latency
SameButLatency(m1, m2) == \A f \in OtherFields : m1[f] = m2[f]

\* ------------------------------------------------------------------------
\* C19: CallableAgentRunner.run never overwrites an explicit latency.  When
\* the callable returns a full response whose latency is set, the returned
\* response has the same latency, the same other metadata fields and the
\* same result.  When the latency is unset only the latency is filled, with
\* the measured elapsed time.  When the callable returns a bare result the
\* metadata is exactly what the hook returns for (task, result, elapsed
\* time) or, without a hook, metadata whose only set field is the measured
\* latency.
C19_LatencyBackfillOnly ==
    runner.pc = "returned" =>
        LET ret == runner.returned
            out == runner.out[1]
            elapsed == runner.elapsed_ms
        IN /\ out.result = ret.result
           /\ ret.full /\ ret.metadata.latency_ms # None =>
                /\ out.metadata.latency_ms = ret.metadata.latency_ms
                /\ SameButLatency(out.metadata, ret.metadata)
           /\ ret.full /\ ret.metadata.latency_ms = None =>
                /\ out.metadata.latency_ms = elapsed
                /\ SameButLatency(out.metadata, ret.metadata)
           /\ ~ret.full /\ runner.hook = "cost_only" =>
                /\ out.metadata.latency_ms = None
                /\ out.metadata.usd_cost = Some(25)
                /\ \A f \in OtherFields \ {"usd_cost"} :
                     out.metadata[f] = None
           /\ ~ret.full /\ runner.hook = "record_context" =>
                /\ out.metadata.latency_ms = elapsed
                /\ out.metadata.tokens_in = Some(runner.task.ticket_id)
                /\ out.metadata.failure_reason = Some(ret.result.severity)
                /\ \A f \in OtherFields \ {"tokens_in", "failure_reason"} :
                     out.metadata[f] = None
           /\ ~ret.full /\ runner.hook = NoHook =>
                /\ out.metadata.latency_ms = elapsed
                /\ \A f \in OtherFields : out.metadata[f] = None

\* the callable reported a latency of 0.0 together with a cost; the
\* measured time was 7 ms and the response still says 0.0
C19_Witness ==
    /\ runner.pc = "returned"
    /\ runner.returned.full
    /\ runner.returned.metadata.latency_ms = Some(0)
    /\ runner.returned.metadata.usd_cost = Some(25)
    /\ runner.elapsed_ms = Some(7)
    /\ runner.out[1].metadata.latency_ms = Some(0)
    /\ runner.out[1].metadata.usd_cost = Some(25)

\* ------------------------------------------------------------------------
\* evaluation/run.py: main
\* ------------------------------------------------------------------------
\* The lines of the files given to main: unparseable lines and schema-valid
\* records, the expected result of a label depending on its identifier.
MainTaskLines ==
    {TaskLine("badjson", NoId, "")}
    \cup {TaskLine("task", i, "title-a") : i \in Ids}

MainLabelLines ==
    {LabelLine("badjson", NoId, "", AbsentDifficulty)}
    \cup {LabelLine("label", i, IF i = 1 THEN "result-a" ELSE "result-b",
                    AbsentDifficulty) : i \in Ids}

\* --agent-mode: choices noop and gold, default noop
AgentModes == {"noop", "gold"}

\* --limit: absent, or any integer: negative, zero or positive
MainLimits == {None, Some(-1), Some(0), Some(1)}

\* "summary.schema_valid_pct < 0.95", in hundredths
SchemaValidThreshold == 95

\* the examples with the TicketResult objects their labels hold
WithResultObjects(exs) ==
    [k \in 1..Len(exs) |-> [exs[k] EXCEPT !.gold = ResultValue(@)]]

\* assemble_examples(tasks_path, labels_path) for files with these lines
assemble_examples(tlines, llines) ==
    LET t == load_tasks(TasksPath, tlines)
        l == load_labels(LabelsPath, llines)
    IN [examples |->
            WithResultObjects(
                BuildExamples(t.tasks, l.labels,
                    SortedSeq(JoinIds(DOMAIN t.tasks, DOMAIN l.labels)))),
        issues |-> AssembleIssues(t.tasks, t.issues, l.labels, l.issues)]

\* variant of GoldMapping: every ticket maps to the first example's gold
GoldMappingFirstGold(exs) ==
    [id \in {exs[k].task.ticket_id : k \in 1..Len(exs)} |-> exs[1].gold]

\* _build_gold_runner: the mapping ticket_id -> gold result of the closure
GoldMapping(exs) ==
    [id \in {exs[k].task.ticket_id : k \in 1..Len(exs)} |->
        (CHOOSE e \in {exs[k] : k \in 1..Len(exs)} :
            e.task.ticket_id = id).gold]

\* _build_agent_runner(mode, dataset_examples)
BuildAgentRunner(mode, exs) ==
    IF mode = "noop" THEN [exc |-> NoException, kind |-> "noop",
                           mapping |-> EmptyDict]
    ELSE IF mode = "gold" THEN [exc |-> NoException, kind |-> "gold",
                                mapping |-> GoldMapping(exs)]
    ELSE [exc |-> "ValueError", kind |-> "none", mapping |-> EmptyDict]

\* agent_runner.run(task): NoOpAgentRunner raises; the gold runner is a
\* CallableAgentRunner around _run, which looks the ticket up
AgentRun(agent_runner, task, elapsed_ms) ==
    IF agent_runner.kind = "noop"
    THEN [exc |-> "NotImplementedError", response |-> None]
    ELSE IF ~InDict(agent_runner.mapping, task.ticket_id)
    THEN [exc |-> "KeyError", response |-> None]
    ELSE [exc |-> NoException,
          response |->
            Some(CallableRun(
                [full |-> TRUE,
                 result |-> agent_runner.mapping[task.ticket_id],
                 metadata |-> [AgentRunMetadata EXCEPT
                                    !.latency_ms = Some(0)]],
                NoHook, task, elapsed_ms))]

\* the loop over the metrics (lines 28-33) for one example and response
RECURSIVE MetricOutputs(_, _, _, _)
MetricOutputs(metrics, example, response, metric_outputs) ==
    IF metrics = <<>> THEN metric_outputs
    ELSE MetricOutputs(Tail(metrics), example, response,
            StoreMetric(metric_outputs,
                        Compute(Head(metrics), example, response)))

\* the loop over the examples (lines 24-43) with the results so far;
\* runs counts the invocations of the runner
RECURSIVE EvaluateFrom(_, _, _, _, _, _)
EvaluateFrom(exs, agent_runner, metrics, limit, results, elapsed_ms) ==
    LET count == Len(results) IN
    IF count = Len(exs) \/ LimitReached(limit, count)
    THEN [exc |-> NoException, results |-> results, runs |-> count]
    ELSE
      LET example == exs[count + 1]
          ran == AgentRun(agent_runner, example.task, elapsed_ms)
      IN IF ran.exc # NoException
         THEN [exc |-> ran.exc, results |-> <<>>, runs |-> count + 1]
         ELSE EvaluateFrom(exs, agent_runner, metrics, limit,
                Append(results,
                       EvalResult(example, ran.response[1],
                                  MetricOutputs(metrics, example,
                                                ran.response[1], EmptyDict))),
                elapsed_ms)

\* evaluate_examples(examples, agent_runner, metrics, limit) as one step
evaluate_examples(exs, agent_runner, metrics, limit, elapsed_ms) ==
    EvaluateFrom(exs, agent_runner, metrics, limit, <<>>, elapsed_ms)

\* variant of NoExamples: the empty join is not told apart
NoExamplesNever(exs) == FALSE

\* "if not dataset.examples"
NoExamples(exs) == Len(exs) = 0

\* summary.schema_valid_pct < 0.95
BelowThreshold(summary) ==
    summary.schema_valid_pct.num * 100
        < SchemaValidThreshold * summary.schema_valid_pct.den

\* main is started on two files, with an agent mode and a limit
InitMain ==
    /\ \E n, m \in 0..MaxJoinLines :
       \E tl \in [1..n -> MainTaskLines] :
       \E ll \in [1..m -> MainLabelLines] :
       \E mode \in AgentModes :
       \E l \in MainLimits :
         /\ n + m <= MaxJoinLines
         /\ cli = [pc |-> "start", tasks_file |-> tl, labels_file |-> ll,
                   agent_mode |-> mode, limit |-> l,
                   dataset |-> None, issues_file |-> None,
                   summary_file |-> None, agent_runner |-> None,
                   runs |-> 0, results |-> <<>>, exit |-> "running"]
    /\ DatasetIdle
    /\ evaluator = NotCalled
    /\ aggregator = NotCalled
    /\ metric = NotCalled
    /\ runner = NotCalled
    /\ validator = NotCalled

\* line 122: assemble_examples returns the dataset
MainAssemble ==
    /\ cli.pc = "start"
    /\ cli' = [cli EXCEPT
            !.pc = "assembled",
            !.dataset = Some(assemble_examples(cli.tasks_file, cli.labels_file))]
    /\ UNCHANGED <<datasetVars, evaluator, aggregator, metric, runner,
                   validator>>

\* line 122: one of the files cannot be opened and the OSError of the
\* loader leaves main
MainAssembleRaises ==
    /\ cli.pc = "start"
    /\ cli' = [cli EXCEPT !.pc = "exited", !.exit = "OSError"]
    /\ UNCHANGED <<datasetVars, evaluator, aggregator, metric, runner,
                   validator>>

\* variant of WriteIssues: the issues of the join are left out
WriteIssuesLoadersOnly(iss) ==
    LET kept == SelectSeq(iss, LAMBDA i : i.issue_type = SCHEMA_FAILURE)
    IN [k \in 1..Len(kept) |->
            [issue_type |-> kept[k].issue_type,
             ticket_id |-> kept[k].ticket_id, details |-> kept[k].details,
             metrics |-> None, severity |-> "ERROR"]]

\* _write_issues: the lines of the issue log, one per issue and in order,
\* each the dict of _issue_to_dict (metrics and severity are the defaults
\* the loaders and the join leave alone)
WriteIssues(iss) ==
    [k \in 1..Len(iss) |->
        [issue_type |-> iss[k].issue_type, ticket_id |-> iss[k].ticket_id,
         details |-> iss[k].details, metrics |-> None,
         severity |-> "ERROR"]]

\* line 123: _write_issues
MainWriteIssues ==
    /\ cli.pc = "assembled"
    /\ cli' = [cli EXCEPT
            !.pc = "issues_written",
            !.issues_file = Some(WriteIssues(cli.dataset[1].issues))]
    /\ UNCHANGED <<datasetVars, evaluator, aggregator, metric, runner,
                   validator>>

\* lines 125-127: no examples: the all-zero summary is written and main
\* returns
MainEmptyJoin ==
    /\ cli.pc = "issues_written"
    /\ NoExamples(cli.dataset[1].examples)
    /\ cli' = [cli EXCEPT
            !.pc = "exited",
            !.summary_file = Some(AggregateSummary(0, Zero, Zero, Zero, 0)),
            !.exit = "returned"]
    /\ UNCHANGED <<datasetVars, evaluator, aggregator, metric, runner,
                   validator>>

\* line 129: _build_agent_runner
MainBuildRunner ==
    /\ cli.pc = "issues_written"
    /\ ~NoExamples(cli.dataset[1].examples)
    /\ LET built == BuildAgentRunner(cli.agent_mode, cli.dataset[1].examples)
       IN cli' = IF built.exc # NoException
                 THEN [cli EXCEPT !.pc = "exited", !.exit = built.exc]
                 ELSE [cli EXCEPT !.pc = "runner_built",
                                  !.agent_runner = Some(built)]
    /\ UNCHANGED <<datasetVars, evaluator, aggregator, metric, runner,
                   validator>>

\* lines 130-131: evaluate_examples returns the results, or the exception
\* of the runner leaves main
MainEvaluate ==
    /\ cli.pc = "runner_built"
    /\ \E elapsed_ms \in ElapsedTimes :
        LET out == evaluate_examples(cli.dataset[1].examples,
                                     cli.agent_runner[1], DefaultMetrics,
                                     cli.limit, elapsed_ms)
        IN cli' = IF out.exc # NoException
                  THEN [cli EXCEPT !.pc = "exited", !.exit = out.exc,
                                   !.runs = out.runs]
                  ELSE [cli EXCEPT !.pc = "evaluated",
                                   !.results = out.results,
                                   !.runs = out.runs]
    /\ UNCHANGED <<datasetVars, evaluator, aggregator, metric, runner,
                   validator>>

\* lines 132-133: summarize_results and _write_summary
MainWriteSummary ==
    /\ cli.pc = "evaluated"
    /\ LET out == summarize_results(cli.results)
       IN cli' = IF out.exc # NoException
                 THEN [cli EXCEPT !.pc = "exited", !.exit = out.exc]
                 ELSE [cli EXCEPT !.pc = "summary_written",
                                  !.summary_file = Some(out.summary)]
    /\ UNCHANGED <<datasetVars, evaluator, aggregator, metric, runner,
                   validator>>

\* lines 135-136: the threshold on schema_valid_pct
MainThreshold ==
    /\ cli.pc = "summary_written"
    /\ cli' = [cli EXCEPT
            !.pc = "exited",
            !.exit = IF BelowThreshold(cli.summary_file[1])
                     THEN "SystemExit" ELSE "returned"]
    /\ UNCHANGED <<datasetVars, evaluator, aggregator, metric, runner,
                   validator>>

NextMain ==
    \/ MainAssemble
    \/ MainAssembleRaises
    \/ MainWriteIssues
    \/ MainEmptyJoin
    \/ MainBuildRunner
    \/ MainEvaluate
    \/ MainWriteSummary
    \/ MainThreshold

SpecMain == InitMain /\ [][NextMain]_vars

\* ------------------------------------------------------------------------
\* Vocabulary of the properties of main
\* ------------------------------------------------------------------------
\* no identifier has a schema-valid line in both files
JoinIsEmpty ==
    \A id \in Ids : ValidLines(cli.tasks_file, id) = {}
                    \/ ValidLines(cli.labels_file, id) = {}

\* the limit lets the evaluator invoke the runner at least once
LimitAllowsARun == cli.limit = None \/ cli.limit[1] > 0

\* main has ended, and not because a file could not be opened
EndedAfterLoading == cli.pc = "exited" /\ cli.exit # "OSError"

\* ------------------------------------------------------------------------
\* C20 as stated: every run of main, for any task and label files and any
\* permitted agent mode and limit, completes and emits a summary file; for
\* an empty join the summary is all-zero and the agent runner is never
\* constructed or invoked.  (Stated for the runs whose files can be opened,
\* and counting an exit through the threshold as completion.)
C20_Original ==
    EndedAfterLoading =>
        /\ cli.exit \in {"returned", "SystemExit"}
        /\ cli.summary_file # None
        /\ JoinIsEmpty =>
             /\ cli.summary_file = Some(AggregateSummary(0, Zero, Zero, Zero, 0))
             /\ cli.agent_runner = None
             /\ cli.runs = 0

\* C20 amended: a run of main whose files can be opened emits the summary
\* file in every case but one.  For an empty join it writes the all-zero
\* summary and returns, and the agent runner is never constructed or
\* invoked.  For a non-empty join in gold mode, or with a limit of zero or
\* less, it writes the summary and then returns or leaves through the
\* threshold.
\* For a non-empty join in noop mode with a limit that is absent or
\* positive, the runner raises NotImplementedError on the first example
\* and main ends with the issue log written and no summary file.  When a
\* file cannot be opened the OSError ends main before anything is written.
C20_SummaryUnlessNoopRunnerRuns ==
    cli.pc = "exited" =>
        /\ cli.exit = "OSError" =>
             cli.summary_file = None /\ cli.issues_file = None
        /\ EndedAfterLoading /\ JoinIsEmpty =>
             /\ cli.exit = "returned"
             /\ cli.summary_file = Some(AggregateSummary(0, Zero, Zero, Zero, 0))
             /\ cli.agent_runner = None
             /\ cli.runs = 0
        /\ EndedAfterLoading /\ ~JoinIsEmpty
             /\ (cli.agent_mode = "gold" \/ ~LimitAllowsARun) =>
             /\ cli.exit \in {"returned", "SystemExit"}
             /\ cli.summary_file # None
             /\ cli.summary_file[1].total_examples = Len(cli.results)
        /\ EndedAfterLoading /\ ~JoinIsEmpty
             /\ cli.agent_mode = "noop" /\ LimitAllowsARun =>
             /\ cli.exit = "NotImplementedError"
             /\ cli.runs = 1
             /\ cli.issues_file # None
             /\ cli.summary_file = None

\* the default mode on a dataset with two joined tickets: the placeholder
\* runner raised on the first one and there is no summary file
C20_Witness ==
    /\ cli.pc = "exited"
    /\ cli.agent_mode = "noop"
    /\ cli.limit = None
    /\ cli.exit = "NotImplementedError"
    /\ Len(cli.dataset[1].examples) = 2
    /\ cli.runs = 1
    /\ cli.issues_file = Some(<<>>)
    /\ cli.summary_file = None

\* main has written a summary file
SummaryEmitted == cli.summary_file # None

\* ------------------------------------------------------------------------
\* C21: whenever the summary emitted by main has a schema-valid fraction
\* below 0.95, main signals failure (SystemExit), and the summary file has
\* already been written when the failure is signalled; whenever the
\* fraction is at least 0.95, main returns without signalling failure.
C21_ThresholdDecidesExit ==
    /\ cli.pc = "exited" /\ cli.exit = "SystemExit" => SummaryEmitted
    /\ cli.pc = "exited" /\ SummaryEmitted =>
         cli.exit = IF BelowThreshold(cli.summary_file[1])
                    THEN "SystemExit" ELSE "returned"

\* the value stored under a metric's name in a result
MetricValue(result, name) == Get(result.metrics, name, NoneValue)

\* main ran in the gold agent mode
GoldMode == cli.agent_mode = "gold"

\* ------------------------------------------------------------------------
\* C22: when the agent echoes the gold result for every example (the gold
\* agent mode built from the assembled examples), evaluation never raises
\* for a missing gold record, every EvalResult has categorical_accuracy
\* 1.0, next_step_match true and schema_valid true, its output is the gold
\* of its example, and when at least one example was processed the summary
\* has categorical_accuracy = next_step_match_rate = schema_valid_pct = 1.0
\* and main returns without the threshold failure.
C22_GoldAgentScoresPerfectly ==
    GoldMode =>
      /\ cli.exit # "KeyError"
      /\ \A k \in 1..Len(cli.results) :
           /\ MetricValue(cli.results[k], "categorical_accuracy") = Float(1)
           /\ MetricValue(cli.results[k], "next_step_match") = Bool(TRUE)
           /\ MetricValue(cli.results[k], "schema_valid") = Bool(TRUE)
           /\ cli.results[k].output = cli.dataset[1].examples[k].gold
      /\ SummaryEmitted /\ Len(cli.results) > 0 =>
           /\ cli.summary_file[1].total_examples = Len(cli.results)
           /\ IsQuotient(cli.summary_file[1].categorical_accuracy, 1, 1)
           /\ IsQuotient(cli.summary_file[1].next_step_match_rate, 1, 1)
           /\ IsQuotient(cli.summary_file[1].schema_valid_pct, 1, 1)
           /\ cli.pc = "exited" => cli.exit = "returned"

\* a gold-mode run over two examples with different golds has returned
C22_Witness ==
    /\ GoldMode
    /\ cli.pc = "exited" /\ cli.exit = "returned"
    /\ Len(cli.results) = 2
    /\ cli.results[1].output = ResultA
    /\ cli.results[2].output = ResultB
    /\ cli.summary_file # None
    /\ cli.summary_file[1].total_examples = 2


\* ========================================================================
\* The validator CLI (tools/validate_schema.py): validate_dataset
\* ========================================================================
\* A path argument of validate_dataset is a record of its state - "absent"
\* (None), "unopenable" or "given" - and the lines of the file.
\* The lines of the tasks file of the validator: as the loader's lines,
\* with the flag difficulty_key for a top-level "difficulty" key
ValidatorTaskLines ==
    {[kind |-> "badjson", ticket_id |-> NoId, title |-> "",
      difficulty_key |-> FALSE],
     [kind |-> "badtask", ticket_id |-> 1, title |-> "",
      difficulty_key |-> FALSE],
     [kind |-> "task", ticket_id |-> 1, title |-> "title-a",
      difficulty_key |-> TRUE]}
    \cup {[kind |-> "task", ticket_id |-> i, title |-> "title-a",
           difficulty_key |-> FALSE] : i \in Ids}

ValidatorLabelLines ==
    {LabelLine("badjson", NoId, "", AbsentDifficulty),
     LabelLine("noid", NoId, "", AbsentDifficulty),
     LabelLine("label", 1, "result-b", "extreme")}
    \cup {LabelLine("label", i, "result-a", "easy") : i \in Ids}

\* one string appended to errors: the path and line number it starts with
\* (none for the cross-check), its text and the ticket_id it quotes
ErrorLine(path, lineno, msg, ticket_id) ==
    [path |-> path, lineno |-> lineno, msg |-> msg, ticket_id |-> ticket_id]

\* iter_json_lines for one line: a blank line is skipped, a line that is
\* no JSON appends an error, every other line is yielded
IterJsonLine(path, lineno, raw, errors) ==
    IF IsBlank(raw)
    THEN [yielded |-> FALSE, errors |-> errors]
    ELSE IF raw.kind = "badjson"
    THEN [yielded |-> FALSE,
          errors |-> Append(errors,
                        ErrorLine(path, lineno, "invalid JSON", NoId))]
    ELSE [yielded |-> TRUE, errors |-> errors]

\* body of the loop of validate_tasks for one line of the file
ValidateTaskLine(path, lineno, raw, index, errors) ==
    LET it == IterJsonLine(path, lineno, raw, errors)
        checked == IF raw.difficulty_key
                   THEN Append(it.errors,
                            ErrorLine(path, lineno,
                                "difficulty must not appear on task ingress",
                                NoId))
                   ELSE it.errors
    IN
    IF ~it.yielded
    THEN [index |-> index, errors |-> it.errors]
    ELSE IF raw.kind = "nonobject"
    THEN [index |-> index,
          errors |-> Append(it.errors,
                        ErrorLine(path, lineno, "expected an object root",
                                  NoId))]
    ELSE IF TaskDataMissing(raw)
    THEN [index |-> index,
          errors |-> Append(checked,
                        ErrorLine(path, lineno, "missing 'task' field",
                                  NoId))]
    ELSE IF ~TaskValidates(raw)
    THEN [index |-> index,
          errors |-> Append(checked,
                        ErrorLine(path, lineno, "task schema violation",
                                  NoId))]
    ELSE IF InDict(index, TicketTask(raw).ticket_id)
    THEN [index |-> index,
          errors |-> Append(checked,
                        ErrorLine(path, lineno, "duplicate ticket_id",
                                  TicketTask(raw).ticket_id))]
    ELSE [index |-> DictSet(index, TicketTask(raw).ticket_id,
                            TicketTask(raw)),
          errors |-> checked]

\* body of the loop of validate_labels for one line of the file
ValidateLabelLine(path, lineno, raw, index, errors) ==
    LET it == IterJsonLine(path, lineno, raw, errors)
        checked == IF raw.difficulty \notin ALLOWED_DIFFICULTY
                   THEN Append(it.errors,
                            ErrorLine(path, lineno,
                                "difficulty must be one of", NoId))
                   ELSE it.errors
    IN
    IF ~it.yielded
    THEN [index |-> index, errors |-> it.errors]
    ELSE IF raw.kind = "nonobject"
    THEN [index |-> index,
          errors |-> Append(it.errors,
                        ErrorLine(path, lineno, "expected an object root",
                                  NoId))]
    ELSE IF LabelIdInvalid(raw)
    THEN [index |-> index,
          errors |-> Append(it.errors,
                        ErrorLine(path, lineno,
                                  "missing or invalid 'ticket_id'", NoId))]
    ELSE IF ExpectedMissing(raw)
    THEN [index |-> index,
          errors |-> Append(checked,
                        ErrorLine(path, lineno,
                                  "missing 'expected_result' field", NoId))]
    ELSE IF ~ResultValidates(raw)
    THEN [index |-> index,
          errors |-> Append(checked,
                        ErrorLine(path, lineno, "result schema violation",
                                  NoId))]
    ELSE IF InDict(index, raw.ticket_id)
    THEN [index |-> index,
          errors |-> Append(checked,
                        ErrorLine(path, lineno, "duplicate ticket_id",
                                  raw.ticket_id))]
    ELSE [index |-> DictSet(index, raw.ticket_id,
                        [result |-> raw.gold,
                         difficulty |-> IF IsStr(raw.difficulty)
                                        THEN raw.difficulty ELSE ""]),
          errors |-> checked]

RECURSIVE ValidateTasksFrom(_, _, _, _)
ValidateTasksFrom(path, read, rest, acc) ==
    IF rest = <<>> THEN acc
    ELSE ValidateTasksFrom(path, Append(read, Head(rest)), Tail(rest),
            ValidateTaskLine(path, LineNumber(read), Head(rest),
                             acc.index, acc.errors))

RECURSIVE ValidateLabelsFrom(_, _, _, _)
ValidateLabelsFrom(path, read, rest, acc) ==
    IF rest = <<>> THEN acc
    ELSE ValidateLabelsFrom(path, Append(read, Head(rest)), Tail(rest),
            ValidateLabelLine(path, LineNumber(read), Head(rest),
                              acc.index, acc.errors))

\* the OSError of path.open is caught in iter_json_lines and reported
UnableToOpen(path, errors) ==
    Append(errors, ErrorLine(path, NoLine, "unable to open file", NoId))

\* validate_tasks(tasks_path, errors)
validate_tasks(path, file, errors) ==
    IF file.state = "unopenable"
    THEN [index |-> EmptyDict, errors |-> UnableToOpen(path, errors)]
    ELSE ValidateTasksFrom(path, <<>>, file.lines,
                           [index |-> EmptyDict, errors |-> errors])

\* validate_labels(labels_path, errors)
validate_labels(path, file, errors) ==
    IF file.state = "unopenable"
    THEN [index |-> EmptyDict, errors |-> UnableToOpen(path, errors)]
    ELSE ValidateLabelsFrom(path, <<>>, file.lines,
                            [index |-> EmptyDict, errors |-> errors])

\* lines 104-110: the cross-check of the two indexes
CrossCheck(task_index, label_index, errors) ==
    LET missing == SortedSeq(DOMAIN task_index \ DOMAIN label_index)
        orphan == SortedSeq(DOMAIN label_index \ DOMAIN task_index)
    IN
    IF DOMAIN task_index # {} /\ DOMAIN label_index # {}
    THEN errors
         \o [k \in 1..Len(missing) |->
                ErrorLine(NoPath, NoLine,
                          "missing expected result for ticket_id",
                          missing[k])]
         \o [k \in 1..Len(orphan) |->
                ErrorLine(NoPath, NoLine,
                          "orphan expected result for ticket_id",
                          orphan[k])]
    ELSE errors

\* validate_dataset(tasks_path, labels_path) has been called
InitValidate ==
    /\ \E n, m \in 0..MaxJoinLines :
       \E tl \in [1..n -> ValidatorTaskLines] :
       \E ll \in [1..m -> ValidatorLabelLines] :
       \E ts, ls \in {"absent", "unopenable", "given"} :
         /\ n + m <= MaxJoinLines
         /\ ts # "given" => n = 0
         /\ ls # "given" => m = 0
         /\ validator = [pc |-> "start",
                         tasks_path |-> [state |-> ts, lines |-> tl],
                         labels_path |-> [state |-> ls, lines |-> ll],
                         errors |-> <<>>,
                         tasks |-> EmptyDict, labels |-> EmptyDict]
    /\ DatasetIdle
    /\ evaluator = NotCalled
    /\ aggregator = NotCalled
    /\ metric = NotCalled
    /\ runner = NotCalled
    /\ cli = NotCalled

\* lines 99-100: validate_tasks, when a tasks path was passed
ValidateTasks ==
    /\ validator.pc = "start"
    /\ LET out == validate_tasks(TasksPath, validator.tasks_path,
                                 validator.errors)
       IN validator' =
            IF validator.tasks_path.state = "absent"
            THEN [validator EXCEPT !.pc = "tasks_validated"]
            ELSE [validator EXCEPT !.pc = "tasks_validated",
                                   !.tasks = out.index,
                                   !.errors = out.errors]
    /\ UNCHANGED <<datasetVars, evaluator, aggregator, metric, runner, cli>>

\* lines 101-102: validate_labels, when a labels path was passed
ValidateLabels ==
    /\ validator.pc = "tasks_validated"
    /\ LET out == validate_labels(LabelsPath, validator.labels_path,
                                  validator.errors)
       IN validator' =
            IF validator.labels_path.state = "absent"
            THEN [validator EXCEPT !.pc = "labels_validated"]
            ELSE [validator EXCEPT !.pc = "labels_validated",
                                   !.labels = out.index,
                                   !.errors = out.errors]
    /\ UNCHANGED <<datasetVars, evaluator, aggregator, metric, runner, cli>>

\* lines 104-111: the cross-check, and validate_dataset returns errors
ValidateCrossCheck ==
    /\ validator.pc = "labels_validated"
    /\ validator' = [validator EXCEPT
            !.pc = "returned",
            !.errors = CrossCheck(validator.tasks, validator.labels,
                                  validator.errors)]
    /\ UNCHANGED <<datasetVars, evaluator, aggregator, metric, runner, cli>>

NextValidate ==
    \/ ValidateTasks
    \/ ValidateLabels
    \/ ValidateCrossCheck

SpecValidate == InitValidate /\ [][NextValidate]_vars

\* identifiers quoted by the errors with the given text
ErrorIds(errors, msg) ==
    {errors[k].ticket_id : k \in {j \in 1..Len(errors) : errors[j].msg = msg}}

\* identifiers of the join-mismatch Issues with the given message
JoinIssueIds(iss, msg) ==
    {iss[k].ticket_id :
        k \in {j \in 1..Len(iss) : /\ iss[j].issue_type = JOIN_MISMATCH
                                   /\ iss[j].details.msg = msg}}

\* identifiers with a valid record in the first file and none in the second
OnlyIn(lines, others) ==
    {id \in Ids : ValidLines(lines, id) # {} /\ ValidLines(others, id) = {}}

\* validate_dataset was called with two paths that open, and has returned
ValidatedBoth ==
    /\ validator.pc = "returned"
    /\ validator.tasks_path.state = "given"
    /\ validator.labels_path.state = "given"

\* ------------------------------------------------------------------------
\* C23: validate_dataset called with both a tasks path and a labels path
\* reports a "missing expected result" error for every valid task
\* identifier that has no valid label and an "orphan expected result" error
\* for every valid label identifier that has no valid task, for every
\* content of the two files (including when one file yields no valid
\* record); these are the same remainder identifiers for which
\* assemble_examples emits join-mismatch Issues on the same files.
C23_SameRemaindersAsJoin ==
    ValidatedBoth =>
      LET tl == validator.tasks_path.lines
          ll == validator.labels_path.lines
          joined == assemble_examples(tl, ll).issues
      IN /\ ErrorIds(validator.errors,
                     "missing expected result for ticket_id") = OnlyIn(tl, ll)
         /\ ErrorIds(validator.errors,
                     "orphan expected result for ticket_id") = OnlyIn(ll, tl)
         /\ ErrorIds(validator.errors,
                     "missing expected result for ticket_id")
              = JoinIssueIds(joined, MissingMsg)
         /\ ErrorIds(validator.errors,
                     "orphan expected result for ticket_id")
              = JoinIssueIds(joined, OrphanMsg)


\* the issue log has been written
IssueLogWritten == cli.issues_file # None

\* number of Issues the files of main call for: one per undecodable line,
\* one per repeated valid record, and one per identifier with a valid
\* record in one file only
IssuesCalledFor(tl, ll) ==
    Cardinality({i \in 1..Len(tl) : tl[i].kind = "badjson"})
    + Cardinality({i \in 1..Len(ll) : ll[i].kind = "badjson"})
    + Cardinality({i \in 1..Len(tl) :
            \E j \in ValidLines(tl, tl[i].ticket_id) : j < i})
    + Cardinality({i \in 1..Len(ll) :
            \E j \in ValidLines(ll, ll[i].ticket_id) : j < i})
    + Cardinality(OnlyIn(tl, ll)) + Cardinality(OnlyIn(ll, tl))

\* the log holds, line for line, the loader and join Issues of the files
CompleteIssueLog ==
    LET log == cli.issues_file[1]
        iss == assemble_examples(cli.tasks_file, cli.labels_file).issues
    IN /\ Len(log) = Len(iss)
       /\ Len(log) = IssuesCalledFor(cli.tasks_file, cli.labels_file)
       /\ \A k \in 1..Len(log) :
            /\ log[k].issue_type = iss[k].issue_type
            /\ log[k].ticket_id = iss[k].ticket_id
            /\ log[k].details = iss[k].details

\* the runner raised inside evaluate_examples
RunnerRaised ==
    cli.pc = "exited" /\ cli.exit \in {"NotImplementedError", "KeyError"}

\* ------------------------------------------------------------------------
\* C24: in main the complete issue log (all loader and join Issues) is
\* written before the agent runner is built or invoked, so on every exit
\* path of main that the claim lists - normal return, early return for an
\* empty join, an exception raised by the runner or by runner
\* construction, and the threshold failure - the issue log has been
\* written and is the one a successful run on the same files writes; when
\* the runner raises on a processed example, evaluate_examples returns no
\* partial results and no summary is written.
C24_IssueLogBeforeRunner ==
    /\ cli.pc # "not_called" /\ (cli.agent_runner # None \/ cli.runs > 0) =>
         IssueLogWritten
    /\ IssueLogWritten => CompleteIssueLog
    /\ EndedAfterLoading => IssueLogWritten
    /\ RunnerRaised =>
         /\ cli.runs > 0
         /\ cli.results = <<>>
         /\ cli.summary_file = None

\* the noop runner raised on the first of two examples of files that have
\* an undecodable line and an orphan label: the log holds both Issues
C24_Witness ==
    /\ RunnerRaised
    /\ cli.runs = 1
    /\ Len(cli.tasks_file) + Len(cli.labels_file) = MaxJoinLines
    /\ \E i \in 1..Len(cli.tasks_file) : cli.tasks_file[i].kind = "badjson"
    /\ ~JoinIsEmpty
    /\ OnlyIn(cli.labels_file, cli.tasks_file) # {}
    /\ IssueLogWritten
    /\ Len(cli.issues_file[1]) = 2
    /\ cli.issues_file[1][1].issue_type = SCHEMA_FAILURE
    /\ cli.issues_file[1][2].issue_type = JOIN_MISMATCH
    /\ cli.summary_file = None

====
